---- MODULE Spec2Model ----
(***************************************************************************)
(* Crossword generator: Grid, WordPlacer, Validator and CrosswordGenerator *)
(* as state machines.                                                      *)
(*                                                                         *)
(* Characters are Unicode code points (1040..1071 are the capital letters  *)
(* of the Cyrillic alphabet, 1072..1103 the small ones); a word is a       *)
(* sequence of code points.  The board is a function from (row, col) pairs *)
(* to code points, 0 standing for Grid.EMPTY.                              *)
(***************************************************************************)
EXTENDS Integers, Sequences, FiniteSets, TLC

VARIABLES
    grid,            \* the Grid object: cells, height, width, size, placed_words
    call,            \* the last Grid method a caller ran and what it returned
    pc,              \* where the generate call stands ("idle": no generate call)
    category,        \* generate: argument
    difficulty,      \* generate: argument
    excluded_words,  \* generate: argument
    sorted_words,    \* generate: the candidate list handed to _generate_single
    target_count,    \* generate: the number of words aimed at
    attempt,         \* generate: the index of the for loop
    used_words,      \* WordPlacer._used_words
    available_words, \* place_remaining_words: local
    word_index,      \* place_remaining_words: local
    attempts,        \* place_remaining_words: local
    result,          \* what generate returned: <<>> for None, <<puzzle>> for a puzzle
    stats,           \* CrosswordGenerator._stats: total_generated, successful, failed
    best_result,     \* place_words_with_backtracking: local
    max_global_attempts, \* place_words_with_backtracking: argument
    seed,            \* generate: argument, <<>> for None and <<s>> for the integer s
    rng,             \* the state of the random module's generator
    drawn,           \* the draws the generate call has made from a known state
    dictionary,      \* CrosswordGenerator.dictionary
    seen,            \* the generate calls that have ended on this generator
    other,           \* the steps another generate call of the process has made
    api              \* get_crossword: its locals and its response

genArgs == <<category, difficulty, excluded_words, seed>>

genVars == <<pc, category, difficulty, excluded_words, sorted_words, target_count,
             attempt, used_words, available_words, word_index, attempts, result, stats,
             seed>>

placerVars == <<best_result, max_global_attempts>>

rndVars == <<rng, drawn>>

objVars == <<dictionary, seen, other, api>>

vars == <<grid, call, genVars, placerVars, rndVars, objVars>>

-----------------------------------------------------------------------------
(* Bounds of the Grid-level specification *)

\* side of the Grid built by the Grid-level driver (the argument of Grid(size))
GridSize == 4

\* number of place_word calls that succeed in one run of the Grid-level driver
MaxPlaced == 2

-----------------------------------------------------------------------------
(* Characters and strings *)

\* Grid.EMPTY
EMPTY == 0

\* str.upper() on one character
UpperChar(c) ==
    IF c >= 1072 /\ c <= 1103 THEN c - 32
    ELSE IF c = 1105 THEN 1025
    ELSE c

\* str.upper()
Upper(word) == [i \in 1..Len(word) |-> UpperChar(word[i])]

Abs(x) == IF x < 0 THEN -x ELSE x

Min(a, b) == IF a < b THEN a ELSE b

Max(a, b) == IF a > b THEN a ELSE b

-----------------------------------------------------------------------------
(* Grid *)

\* Grid.__init__
NewGrid(n) ==
    [ cells        |-> [rc \in (0..(n - 1)) \X (0..(n - 1)) |-> EMPTY],
      height       |-> n,
      width        |-> n,
      size         |-> n,
      placed_words |-> << >> ]

\* Grid.get_cell
get_cell(g, row, col) ==
    IF 0 <= row /\ row < g.height /\ 0 <= col /\ col < g.width
    THEN g.cells[<<row, col>>]
    ELSE EMPTY

\* the cell of the i-th letter (0-based) of a word laid from (row, col)
CellAt(row, col, direction, i) ==
    IF direction = "horizontal" THEN <<row, col + i>> ELSE <<row + i, col>>

\* PlacedWord.length
WordLength(placed) == Len(placed.word)

\* Grid._has_perpendicular_word
has_perpendicular_word(g, row, col, direction) ==
    \E k \in 1..Len(g.placed_words) :
        LET placed == g.placed_words[k] IN
        /\ placed.direction = direction
        /\ IF direction = "horizontal"
           THEN placed.row = row /\ placed.col <= col
                /\ col < placed.col + WordLength(placed)
           ELSE placed.col = col /\ placed.row <= row
                /\ row < placed.row + WordLength(placed)

\* a variant of the neighbour test that lets every cell pass
check_adjacent_cells_any(g, row, col, direction, pos_in_word, word_length) == TRUE

\* Grid._check_adjacent_cells
check_adjacent_cells(g, row, col, direction, pos_in_word, word_length) ==
    IF direction = "horizontal"
    THEN LET above == get_cell(g, row - 1, col)
             below == get_cell(g, row + 1, col)
         IN  (above # EMPTY \/ below # EMPTY)
                 => has_perpendicular_word(g, row, col, "vertical")
    ELSE LET left  == get_cell(g, row, col - 1)
             right == get_cell(g, row, col + 1)
         IN  (left # EMPTY \/ right # EMPTY)
                 => has_perpendicular_word(g, row, col, "horizontal")

\* can_place_word, the bounds check
FitsBoard(g, length, row, col, direction) ==
    /\ ~(row < 0 \/ col < 0)
    /\ IF direction = "horizontal"
       THEN ~(col + length > g.width) /\ ~(row >= g.height)
       ELSE ~(row + length > g.height) /\ ~(col >= g.width)

\* a variant of the letter loop without the conflict test: a cell that holds
\* another letter is taken for a crossing
LettersFitNoConflict(g, w, row, col, direction) ==
    \A i \in 0..(Len(w) - 1) :
        LET rc           == CellAt(row, col, direction, i)
            current_cell == get_cell(g, rc[1], rc[2])
        IN  current_cell = EMPTY
               => check_adjacent_cells(g, rc[1], rc[2], direction, i, Len(w))

\* can_place_word, the loop over the letters of the word
LettersFit(g, w, row, col, direction) ==
    \A i \in 0..(Len(w) - 1) :
        LET rc           == CellAt(row, col, direction, i)
            current_cell == get_cell(g, rc[1], rc[2])
        IN  /\ ~(current_cell # EMPTY /\ current_cell # w[i + 1])
            /\ (current_cell = EMPTY
                   => check_adjacent_cells(g, rc[1], rc[2], direction, i, Len(w)))

\* a variant of the end-cell test that lets every word pass
EndCapsAny(g, length, row, col, direction) == TRUE

\* can_place_word, the cells before and after the word
EndCapsFree(g, length, row, col, direction) ==
    IF direction = "horizontal"
    THEN /\ ~(col > 0 /\ get_cell(g, row, col - 1) # EMPTY)
         /\ ~(col + length < g.width /\ get_cell(g, row, col + length) # EMPTY)
    ELSE /\ ~(row > 0 /\ get_cell(g, row - 1, col) # EMPTY)
         /\ ~(row + length < g.height /\ get_cell(g, row + length, col) # EMPTY)

\* Grid.can_place_word
can_place_word(g, word, row, col, direction) ==
    LET w == Upper(word) IN
    /\ FitsBoard(g, Len(w), row, col, direction)
    /\ LettersFit(g, w, row, col, direction)
    /\ EndCapsFree(g, Len(w), row, col, direction)

\* the cells a word laid from (row, col) covers
WordCells(length, row, col, direction) ==
    {CellAt(row, col, direction, i) : i \in 0..(length - 1)}

\* place_word after the check: set_cell for every letter, then the append
WriteWord(g, w, clue, hint, row, col, direction) ==
    [ g EXCEPT
        !.cells = [rc \in DOMAIN g.cells |->
                     IF \E i \in 0..(Len(w) - 1) : CellAt(row, col, direction, i) = rc
                     THEN LET i == CHOOSE i \in 0..(Len(w) - 1) :
                                       CellAt(row, col, direction, i) = rc
                          IN  w[i + 1]
                     ELSE g.cells[rc]],
        !.placed_words = Append(g.placed_words,
                                [ word |-> w, clue |-> clue, hint |-> hint,
                                  row |-> row, col |-> col,
                                  direction |-> direction ]) ]

\* a variant of place_word that asks only whether the word fits the board
place_word_unchecked(g, word, clue, hint, row, col, direction) ==
    LET w == Upper(word) IN
    IF ~FitsBoard(g, Len(w), row, col, direction)
    THEN [ret |-> FALSE, grid |-> g]
    ELSE [ret |-> TRUE, grid |-> WriteWord(g, w, clue, hint, row, col, direction)]

\* Grid.place_word: the return value and the Grid afterwards
place_word(g, word, clue, hint, row, col, direction) ==
    LET w == Upper(word) IN
    IF ~can_place_word(g, w, row, col, direction)
    THEN [ret |-> FALSE, grid |-> g]
    ELSE [ret |-> TRUE, grid |-> WriteWord(g, w, clue, hint, row, col, direction)]

\* a variant of the crossings count that stops at the first crossing
count_intersections_first(g, word, row, col, direction) == 1

\* Grid._count_intersections
count_intersections(g, word, row, col, direction) ==
    Cardinality({i \in 0..(Len(word) - 1) :
        LET rc == CellAt(row, col, direction, i)
        IN  get_cell(g, rc[1], rc[2]) = word[i + 1]})

\* a variant of the candidate position that ignores the letter matched: the
\* new word starts two cells beyond the placed word's line
CandidateAtDetached(placed, i, j) ==
    IF placed.direction = "horizontal"
    THEN <<placed.row + 2, placed.col + i, "vertical">>
    ELSE <<placed.row + i, placed.col + 2, "horizontal">>

\* get_intersections: the position tried for letter i of a placed word and
\* letter j of the new word (both 0-based)
CandidateAt(placed, i, j) ==
    IF placed.direction = "horizontal"
    THEN <<placed.row - j, placed.col + i, "vertical">>
    ELSE <<placed.row + i, placed.col - j, "horizontal">>

\* a variant of IntersectionsWith that keeps the positions can_place_word refuses
IntersectionsWithUnfiltered(g, w, placed) ==
    LET lw    == Len(w)
        pairs == [n \in 1..(WordLength(placed) * lw) |->
                    <<(n - 1) \div lw, (n - 1) % lw>>]
        hits  == SelectSeq(pairs, LAMBDA p : placed.word[p[1] + 1] = w[p[2] + 1])
    IN  [n \in 1..Len(hits) |->
            LET c == CandidateAt(placed, hits[n][1], hits[n][2])
            IN  <<c[1], c[2], c[3], count_intersections(g, w, c[1], c[2], c[3])>>]

\* get_intersections: the body of the two inner loops for one placed word,
\* as the list of the positions appended, in loop order
IntersectionsWith(g, w, placed) ==
    LET lw    == Len(w)
        pairs == [n \in 1..(WordLength(placed) * lw) |->
                    <<(n - 1) \div lw, (n - 1) % lw>>]
        hits  == SelectSeq(pairs, LAMBDA p :
                    /\ placed.word[p[1] + 1] = w[p[2] + 1]
                    /\ LET c == CandidateAt(placed, p[1], p[2])
                       IN  can_place_word(g, w, c[1], c[2], c[3]))
    IN  [n \in 1..Len(hits) |->
            LET c == CandidateAt(placed, hits[n][1], hits[n][2])
            IN  <<c[1], c[2], c[3], count_intersections(g, w, c[1], c[2], c[3])>>]

RECURSIVE IntersectionsUpTo(_, _, _)
\* get_intersections: the outer loop over the first k placed words
IntersectionsUpTo(g, w, k) ==
    IF k = 0 THEN << >>
    ELSE IntersectionsUpTo(g, w, k - 1) \o IntersectionsWith(g, w, g.placed_words[k])

\* Grid.get_intersections
get_intersections(g, word) ==
    IntersectionsUpTo(g, Upper(word), Len(g.placed_words))

\* crop_empty_edges: the rows and the columns that hold a letter
FilledRows(g) == {rc[1] : rc \in {x \in DOMAIN g.cells : g.cells[x] # EMPTY}}

FilledCols(g) == {rc[2] : rc \in {x \in DOMAIN g.cells : g.cells[x] # EMPTY}}

\* a variant of the first filled row or column: always the first of the board
SetMinZero(S) == 0

\* min(...) over the filled rows or columns
SetMin(S) == CHOOSE x \in S : \A y \in S : x <= y

\* max(...) over the filled rows or columns
SetMax(S) == CHOOSE x \in S : \A y \in S : x >= y

\* a variant of the crop that moves the placed words one cell too far
ShiftWordsTooFar(words, min_row, min_col) ==
    [k \in 1..Len(words) |->
        [words[k] EXCEPT !.row = @ - min_row - 1, !.col = @ - min_col - 1]]

\* a variant of the crop that leaves the placed words where they were
ShiftWordsNot(words, min_row, min_col) == words

\* crop_empty_edges: the coordinates of the placed words after the crop
ShiftWords(words, min_row, min_col) ==
    [k \in 1..Len(words) |->
        [words[k] EXCEPT !.row = @ - min_row, !.col = @ - min_col]]

\* Grid.crop_empty_edges: the return value and the Grid afterwards
crop_empty_edges(g) ==
    LET rows    == FilledRows(g)
        cols    == FilledCols(g)
        min_row == IF rows = {} THEN g.height ELSE SetMin(rows)
        max_row == IF rows = {} THEN 0 ELSE SetMax(rows)
        min_col == IF cols = {} THEN g.width ELSE SetMin(cols)
        max_col == IF cols = {} THEN 0 ELSE SetMax(cols)
        new_height == max_row - min_row + 1
        new_width  == max_col - min_col + 1
    IN  IF min_row > max_row
        THEN [ret |-> <<0, 0>>, grid |-> g]
        ELSE [ret  |-> <<new_height, new_width>>,
              grid |-> [ cells  |-> [rc \in (0..(new_height - 1)) \X (0..(new_width - 1)) |->
                                        g.cells[<<rc[1] + min_row, rc[2] + min_col>>]],
                         height |-> new_height,
                         width  |-> new_width,
                         size   |-> Max(new_height, new_width),
                         placed_words |-> ShiftWords(g.placed_words, min_row, min_col) ]]

\* Grid.get_fill_density, as the fraction <<filled_cells, total_cells>>
get_fill_density(g) ==
    IF Cardinality(DOMAIN g.cells) > 0
    THEN << Cardinality({rc \in DOMAIN g.cells : g.cells[rc] # EMPTY}),
            Cardinality(DOMAIN g.cells) >>
    ELSE <<0, 1>>

-----------------------------------------------------------------------------
(* Sorting, scoring and filtering *)

\* the indices of keys left to emit, largest key first, equal keys in index order
RECURSIVE SortRest(_, _)
SortRest(keys, remaining) ==
    IF remaining = {} THEN << >>
    ELSE LET first == CHOOSE i \in remaining :
                        \A j \in remaining :
                            keys[i] > keys[j] \/ (keys[i] = keys[j] /\ i <= j)
         IN  <<first>> \o SortRest(keys, remaining \ {first})

\* sorted(seq, key=..., reverse=True): stable, descending; keys[i] is the key of seq[i]
SortedDesc(seq, keys) ==
    LET perm == SortRest(keys, 1..Len(seq))
    IN  [n \in 1..Len(seq) |-> seq[perm[n]]]

\* seq[:n]
Prefix(seq, n) == SubSeq(seq, 1, Min(n, Len(seq)))

\* sorted(words, key=lambda x: len(x['word']), reverse=True)
SortedByLength(words) ==
    SortedDesc(words, [i \in 1..Len(words) |-> Len(words[i].word)])

\* get_common_letters()[:15]
CommonLetters15 == {1054, 1045, 1040, 1048, 1053, 1058, 1057, 1056, 1042, 1051, 1050, 1052, 1044, 1055, 1059}

\* utils.calculate_word_score
calculate_word_score(word) ==
    LET w == Upper(word)
        length_score == Len(w) * 10
        common_letter_count == Cardinality({i \in 1..Len(w) : w[i] \in CommonLetters15})
        common_score == common_letter_count * 5
    IN  length_score + common_score

\* utils.sort_words_by_score
sort_words_by_score(words) ==
    SortedDesc(words, [i \in 1..Len(words) |-> calculate_word_score(words[i].word)])

\* utils.filter_words_by_length
filter_words_by_length(words, min_length, max_length) ==
    SelectSeq(words, LAMBDA w : min_length <= Len(w.word) /\ Len(w.word) <= max_length)

\* utils.DIFFICULTY_SETTINGS
DIFFICULTY_SETTINGS ==
    [ easy   |-> [word_count |-> <<8, 10>>,  min_word_length |-> 4, max_word_length |-> 8],
      medium |-> [word_count |-> <<10, 12>>, min_word_length |-> 3, max_word_length |-> 10],
      hard   |-> [word_count |-> <<12, 15>>, min_word_length |-> 3, max_word_length |-> 12] ]

\* DIFFICULTY_SETTINGS.get(difficulty, DIFFICULTY_SETTINGS['medium'])
SettingsOf(level) ==
    IF level \in DOMAIN DIFFICULTY_SETTINGS
    THEN DIFFICULTY_SETTINGS[level]
    ELSE DIFFICULTY_SETTINGS["medium"]

-----------------------------------------------------------------------------
(* The dictionary the generator is built with *)

\* one category, "X"; its entries, transliterated:
\* ayairv, TNLR, TSDYA, IEO, DNSLR, AYAIRV, SMO, UIO, MVL, NURT, ORTM
\* (the first entry repeats the sixth in small letters)
Dictionary ==
    [ X |-> <<
       [word |-> <<1072, 1103, 1080, 1088, 1074>>, clue |-> 1, hint |-> 1],
       [word |-> <<1058, 1053, 1051, 1056>>, clue |-> 2, hint |-> 2],
       [word |-> <<1058, 1057, 1044, 1071>>, clue |-> 3, hint |-> 3],
       [word |-> <<1048, 1045, 1054>>, clue |-> 4, hint |-> 4],
       [word |-> <<1044, 1053, 1057, 1051, 1056>>, clue |-> 5, hint |-> 5],
       [word |-> <<1040, 1071, 1048, 1056, 1042>>, clue |-> 6, hint |-> 6],
       [word |-> <<1057, 1052, 1054>>, clue |-> 7, hint |-> 7],
       [word |-> <<1059, 1048, 1054>>, clue |-> 8, hint |-> 8],
       [word |-> <<1052, 1042, 1051>>, clue |-> 9, hint |-> 9],
       [word |-> <<1053, 1059, 1056, 1058>>, clue |-> 10, hint |-> 10],
       [word |-> <<1054, 1056, 1058, 1052>>, clue |-> 11, hint |-> 11] >> ]

-----------------------------------------------------------------------------
(* WordPlacer *)

\* a variant of the candidates that draws from the whole list
InitialCandidatesAll(word_list) == SortedByLength(word_list)

\* place_initial_word: sorted_words[:5], the entries random.choice draws from
InitialCandidates(word_list) == Prefix(SortedByLength(word_list), 5)

\* WordPlacer.place_initial_word(center=True) when random.choice returns word_entry:
\* the return value, the Grid and the used words afterwards
place_initial_word(g, used, word_entry) ==
    LET word   == Upper(word_entry.word)
        length == Len(word)
        row    == g.size \div 2
        col0   == (g.size - length) \div 2
        col    == IF col0 < 0 THEN 0 ELSE col0
    IN  IF col + length > g.size
        THEN [ret |-> FALSE, grid |-> g, used |-> used]
        ELSE LET r == place_word(g, word, word_entry.clue, word_entry.hint,
                                 row, col, "horizontal")
             IN  [ret  |-> r.ret,
                  grid |-> r.grid,
                  used |-> IF r.ret THEN used \cup {word} ELSE used]

\* place_remaining_words: available_words before the loop
AvailableWords(word_list, used) ==
    SortedByLength(SelectSeq(word_list, LAMBDA w : Upper(w.word) \notin used))

\* find_best_position: score(position)
PositionScore(g, position) ==
    LET center == g.size \div 2
        distance_to_center == Abs(position[1] - center) + Abs(position[2] - center)
    IN  (position[4] * 10) - distance_to_center

\* find_best_position: top_positions, the positions random.choice draws from
\* (empty when get_intersections finds none and None is returned)
TopPositions(g, word) ==
    LET intersections == get_intersections(g, word)
    IN  Prefix(SortedDesc(intersections,
                          [i \in 1..Len(intersections) |->
                              PositionScore(g, intersections[i])]), 3)

\* a variant of the used-word test that never skips
IsUsedNever(word, used) == FALSE

\* place_remaining_words: "if word in self._used_words", the test that skips a word
IsUsed(word, used) == word \in used

\* place_remaining_words: max_attempts
MAX_ATTEMPTS == 1000

\* place_remaining_words: the loop condition
LoopContinues(g, target, att, index, available) ==
    /\ Len(g.placed_words) < target
    /\ att < MAX_ATTEMPTS
    /\ index < Len(available)

-----------------------------------------------------------------------------
(* Validator *)

\* a variant of MIN_WORDS, one word fewer
MIN_WORDS_LESS == 8 - 1

\* Validator.MIN_WORDS
MIN_WORDS == 8

\* a variant of MIN_FILL_DENSITY, a tenth lower
MIN_FILL_DENSITY_TENTHS_LESS == 3 - 1

\* Validator.MIN_FILL_DENSITY and MAX_FILL_DENSITY, in tenths
MIN_FILL_DENSITY_TENTHS == 3

MAX_FILL_DENSITY_TENTHS == 7

\* Validator._get_word_cells
get_word_cells(placed) ==
    WordCells(WordLength(placed), placed.row, placed.col, placed.direction)

\* Validator._words_intersect
words_intersect(word1, word2) ==
    get_word_cells(word1) \cap get_word_cells(word2) # {}

\* check_all_words_connected: the words the search has visited once the
\* queue is empty, starting from visited
RECURSIVE Visited(_, _)
Visited(words, visited) ==
    LET more == {j \in 1..Len(words) :
                    /\ j \notin visited
                    /\ \E i \in visited : words_intersect(words[i], words[j])}
    IN  IF more = {} THEN visited ELSE Visited(words, visited \cup more)

\* Validator.check_all_words_connected
check_all_words_connected(words) ==
    IF Len(words) <= 1 THEN TRUE
    ELSE Cardinality(Visited(words, {1})) = Len(words)

\* Validator._are_parallel_adjacent
are_parallel_adjacent(word1, word2) ==
    IF word1.direction = "horizontal"
    THEN /\ Abs(word1.row - word2.row) = 1
         /\ (word1.col..(word1.col + WordLength(word1) - 1))
              \cap (word2.col..(word2.col + WordLength(word2) - 1)) # {}
    ELSE /\ Abs(word1.col - word2.col) = 1
         /\ (word1.row..(word1.row + WordLength(word1) - 1))
              \cap (word2.row..(word2.row + WordLength(word2) - 1)) # {}

\* Validator.check_no_adjacent_parallel
check_no_adjacent_parallel(words) ==
    ~ \E i \in 1..Len(words), j \in 1..Len(words) :
        /\ i < j
        /\ words[i].direction = words[j].direction
        /\ are_parallel_adjacent(words[i], words[j])

\* check_intersections: the errors one placed word adds, letter by letter
IntersectionErrorsOf(g, placed) ==
    LET letters == [i \in 1..WordLength(placed) |->
                      LET rc == CellAt(placed.row, placed.col, placed.direction, i - 1)
                      IN  IF rc[1] < 0 \/ rc[1] >= g.height \/ rc[2] < 0 \/ rc[2] >= g.width
                          THEN "out_of_bounds"
                          ELSE IF g.cells[rc] # placed.word[i] THEN "mismatch"
                          ELSE "ok"]
    IN  SelectSeq(letters, LAMBDA e : e # "ok")

RECURSIVE IntersectionErrorsUpTo(_, _, _)
\* check_intersections: the errors of the first k words
IntersectionErrorsUpTo(g, words, k) ==
    IF k = 0 THEN << >>
    ELSE IntersectionErrorsUpTo(g, words, k - 1) \o IntersectionErrorsOf(g, words[k])

\* Validator.check_intersections
check_intersections(g, words) ==
    IF g.height = 0 THEN << >> ELSE IntersectionErrorsUpTo(g, words, Len(words))

\* validate_crossword: one error for every word whose string an earlier word has
DuplicateErrors(words) ==
    SelectSeq([k \in 1..Len(words) |->
                  IF \E m \in 1..(k - 1) : words[m].word = words[k].word
                  THEN "duplicate" ELSE "ok"],
              LAMBDA e : e # "ok")

\* validate_crossword: one error for every word shorter than 3 letters
ShortWordErrors(words) ==
    SelectSeq([k \in 1..Len(words) |->
                  IF Len(words[k].word) < 3 THEN "too_short" ELSE "ok"],
              LAMBDA e : e # "ok")

\* a variant of ValidationErrorsOf that stops at the first error
ValidationErrorsFirstOnly(g, words) ==
    LET density == get_fill_density(g)
        errors  ==    (IF Len(words) < MIN_WORDS THEN <<"too_few_words">> ELSE << >>)
                   \o check_intersections(g, words)
                   \o (IF ~check_all_words_connected(words)
                       THEN <<"not_connected">> ELSE << >>)
                   \o (IF density[1] * 10 < MIN_FILL_DENSITY_TENTHS * density[2]
                       THEN <<"density_too_low">> ELSE << >>)
                   \o (IF density[1] * 10 > MAX_FILL_DENSITY_TENTHS * density[2]
                       THEN <<"density_too_high">> ELSE << >>)
                   \o DuplicateErrors(words)
                   \o ShortWordErrors(words)
    IN  IF errors = << >> THEN << >> ELSE <<errors[1]>>

\* Validator.validate_crossword(grid, words): the list of errors
ValidationErrorsOf(g, words) ==
    LET density == get_fill_density(g)
    IN     (IF Len(words) < MIN_WORDS THEN <<"too_few_words">> ELSE << >>)
        \o check_intersections(g, words)
        \o (IF ~check_all_words_connected(words) THEN <<"not_connected">> ELSE << >>)
        \o (IF density[1] * 10 < MIN_FILL_DENSITY_TENTHS * density[2]
            THEN <<"density_too_low">> ELSE << >>)
        \o (IF density[1] * 10 > MAX_FILL_DENSITY_TENTHS * density[2]
            THEN <<"density_too_high">> ELSE << >>)
        \o DuplicateErrors(words)
        \o ShortWordErrors(words)

\* Validator.validate_crossword(grid): words is None, the placed words are read
ValidationErrors(g) == ValidationErrorsOf(g, g.placed_words)

\* Validator.validate_crossword(grid, words): (is_valid, errors)
validate_crossword_words(g, words) ==
    LET errors == ValidationErrorsOf(g, words) IN <<Len(errors) = 0, errors>>

\* Validator.validate_crossword(grid): (is_valid, errors)
validate_crossword(g) ==
    LET errors == ValidationErrors(g) IN <<Len(errors) = 0, errors>>

-----------------------------------------------------------------------------
(* CrosswordGenerator *)

DEFAULT_GRID_SIZE == 10

MIN_GRID_SIZE == 6

\* a variant of MAX_REGENERATION_ATTEMPTS, one attempt fewer
MAX_REGENERATION_ATTEMPTS_LESS == 10 - 1

\* CrosswordGenerator.MAX_REGENERATION_ATTEMPTS
MAX_REGENERATION_ATTEMPTS == 10

\* Grid.to_array: the list of the rows
to_array(g) ==
    [r \in 1..g.height |-> [c \in 1..g.width |-> g.cells[<<r - 1, c - 1>>]]]

\* PlacedWord.to_dict
to_dict(placed) ==
    [ word      |-> placed.word,
      clue      |-> placed.clue,
      hint      |-> placed.hint,
      startRow  |-> placed.row,
      startCol  |-> placed.col,
      direction |-> placed.direction,
      length    |-> WordLength(placed) ]

\* round(x, 2) on a float that lies exactly between two hundredths and is no
\* multiple of 1/8: x = m/40, and the double nearest to m/40 lies above the
\* midpoint for these m (round goes up) and below it for the others
RoundsUpFortieths == {1, 9, 11, 13, 21, 27, 31, 37}

\* round(filled / total, 2) in hundredths, for grids of at most 100 cells:
\* the nearest hundredth; a tie that a double holds exactly (a multiple of
\* 1/8) goes to the even hundredth, any other tie goes where the double lies
Round2(density) ==
    LET filled == density[1]
        total  == density[2]
        q      == (100 * filled) \div total
        rest   == (100 * filled) % total
    IN  IF 2 * rest < total THEN q
        ELSE IF 2 * rest > total THEN q + 1
        ELSE IF (8 * filled) % total = 0
             THEN (IF q % 2 = 0 THEN q ELSE q + 1)
             ELSE (IF ((40 * filled) \div total) \in RoundsUpFortieths THEN q + 1 ELSE q)

\* CrosswordGenerator._format_result
format_result(g) ==
    LET placed_words == g.placed_words
        grid_array   == to_array(g)
    IN  [ grid       |-> grid_array,
          words      |-> [k \in 1..Len(placed_words) |-> to_dict(placed_words[k])],
          difficulty |-> "",
          category   |-> "",
          metadata   |-> [ word_count   |-> Len(placed_words),
                           grid_size    |-> << Len(grid_array),
                                               IF Len(grid_array) > 0
                                               THEN Len(grid_array[1]) ELSE 0 >>,
                           fill_density |-> Round2(get_fill_density(g)) ] ]

\* variant of FilteredWords that leaves the excluded words in the list
FilteredWordsKeepExcluded(words, settings, excluded) ==
    filter_words_by_length(words, settings.min_word_length,
                           settings.max_word_length)

\* generate: the words of the category (words is self.dictionary[category])
\* left by the excluded words and the length filter
FilteredWords(words, settings, excluded) ==
    LET kept  == IF excluded # {}
                 THEN SelectSeq(words, LAMBDA w : Upper(w.word) \notin excluded)
                 ELSE words
    IN  filter_words_by_length(kept, settings.min_word_length, settings.max_word_length)

Reverse(seq) == [i \in 1..Len(seq) |-> seq[Len(seq) + 1 - i]]

\* random.shuffle(seq): the k-th of the orders the model draws from
Shuffled(seq, k) == IF k = 1 THEN seq ELSE Reverse(seq)

\* random.shuffle(sorted_words): the orders the model draws from
ShuffleOutcomes(seq) == {Shuffled(seq, k) : k \in 1..2}

-----------------------------------------------------------------------------
(* The random module: one generator for the whole process.  A state of the
   generator is <<>> while nothing is known of it (the interpreter seeded it
   from the system) and <<n>> once random.seed has set it.  A linear
   congruential generator with RngModulus states stands for the Mersenne
   Twister: what matters is that a draw is a function of the state. *)

\* Python's None
None == "None"

RngModulus == 64

\* random.seed(s): the state the seed s leaves
SeedState(s) == (13 * s + 7) % RngModulus

\* the state after one draw
NextRng(n) == (5 * n + 1) % RngModulus

\* the draw among k outcomes, 0..k-1, that the state n gives
RandBelow(n, k) == (n \div 4) % k

\* variant of the seeding that leaves the generator as it was
SeededRngKept(r, s) == r

\* generate, "if seed is not None: random.seed(seed)": the state after it
SeededRng(r, s) == IF s = <<>> THEN r ELSE <<SeedState(s[1])>>

\* the outcomes, 1..k, a draw among k can have in state r
Draws(r, k) == IF r = <<>> THEN 1..k ELSE {RandBelow(r[1], k) + 1}

\* the state after a draw in state r
Advance(r) == IF r = <<>> THEN <<>> ELSE <<NextRng(r[1])>>

\* the count of the draws made from a known state, after a draw in state r
Counted(r, d) == IF r = <<>> THEN d ELSE d + 1

\* variant of DictionaryAfterShuffle in which the shuffled list is the
\* category's own list
DictionaryAfterShuffleAliased(dict, cat, shuffled) == [dict EXCEPT ![cat] = shuffled]

\* self.dictionary after random.shuffle(sorted_words): sorted_words is the
\* list sorted() built in sort_words_by_score, not a list of the dictionary
DictionaryAfterShuffle(dict, cat, shuffled) == dict

-----------------------------------------------------------------------------
(* The Grid-level driver: any place_word call, any crop_empty_edges call *)

\* dictionary entries handed to place_word by the driver:
\* "test" in small letters and OSA (transliterated), which cross at S
DriverEntries ==
    { [word |-> <<1090, 1077, 1089, 1090>>, clue |-> 1, hint |-> 1],
      [word |-> <<1054, 1057, 1040>>,       clue |-> 2, hint |-> 2] }

\* rows and columns handed to place_word: one step outside the board on each side
DriverCoords == (-1)..GridSize

Directions == {"horizontal", "vertical"}

\* the generator side of the state before generate has set it
\* CrosswordGenerator.__init__: self._stats (total_time is not modelled)
NewStats == [total_generated |-> 0, successful |-> 0, failed |-> 0]

\* get_crossword before a request: no attempt, no crossword (<<>> for None),
\* no crossword_id, no excluded id, no response
NoRequest ==
    [ attempt |-> 0, crossword |-> <<>>, crossword_id |-> <<>>,
      excluded_set |-> {}, response |-> <<>> ]

\* variant of StatsAfter that counts the call and not how it ended
StatsAfterTotalOnly(st, ok) == [st EXCEPT !.total_generated = @ + 1]

\* generate: self._stats after a call that returns a puzzle (ok) or None
StatsAfter(st, ok) ==
    IF ok
    THEN [st EXCEPT !.total_generated = @ + 1, !.successful = @ + 1]
    ELSE [st EXCEPT !.total_generated = @ + 1, !.failed = @ + 1]

GenBlank ==
    /\ sorted_words = << >>
    /\ target_count = 0
    /\ attempt = 0
    /\ used_words = {}
    /\ available_words = << >>
    /\ word_index = 0
    /\ attempts = 0
    /\ result = <<>>
    /\ stats = NewStats
    /\ best_result = 0
    /\ max_global_attempts = 0
    /\ rng = <<>>
    /\ drawn = 0
    /\ dictionary = Dictionary
    /\ seen = << >>
    /\ other = 0
    /\ api = NoRequest

Init ==
    /\ grid = NewGrid(GridSize)
    /\ call = [op |-> "Grid", ret |-> << >>]
    /\ pc = "idle"
    /\ category = None
    /\ difficulty = None
    /\ excluded_words = {}
    /\ seed = <<>>
    /\ GenBlank

\* a caller runs grid.place_word(word, clue, hint, row, col, direction)
PlaceWord(entry, row, col, direction) ==
    /\ pc = "idle"
    /\ Len(grid.placed_words) < MaxPlaced
    /\ call.op \notin {"crop_empty_edges", "validate_crossword"}
    /\ LET r == place_word(grid, entry.word, entry.clue, entry.hint, row, col, direction)
       IN  /\ grid' = r.grid
           /\ call' = [op |-> "place_word", ret |-> <<r.ret>>]
    /\ UNCHANGED <<genVars, placerVars, rndVars, objVars>>

\* the word list of the WordPlacer the driver builds on a new Grid; the
\* lengths are 3, 4, 6, 4, 3, 5, 4, one word in small letters
InitialWordList ==
    << [word |-> <<1054, 1057, 1040>>,                   clue |-> 1, hint |-> 1],
       [word |-> <<1090, 1077, 1089, 1090>>,             clue |-> 2, hint |-> 2],
       [word |-> <<1057, 1045, 1057, 1058, 1056, 1040>>, clue |-> 3, hint |-> 3],
       [word |-> <<1040, 1058, 1054, 1052>>,             clue |-> 4, hint |-> 4],
       [word |-> <<1044, 1054, 1052>>,                   clue |-> 5, hint |-> 5],
       [word |-> <<1057, 1045, 1057, 1058, 1056>>,       clue |-> 6, hint |-> 6],
       [word |-> <<1057, 1045, 1058, 1068>>,             clue |-> 7, hint |-> 7] >>

\* a caller runs WordPlacer(grid, InitialWordList).place_initial_word() on a
\* new Grid; random.choice returns word_entry
PlaceInitialWord(word_entry) ==
    /\ pc = "idle"
    /\ call.op = "Grid"
    /\ LET r == place_initial_word(grid, used_words, word_entry)
       IN  /\ grid' = r.grid
           /\ used_words' = r.used
           /\ call' = [op |-> "place_initial_word", ret |-> <<r.ret>>]
    /\ rng' = Advance(rng)
    /\ drawn' = Counted(rng, drawn)
    /\ UNCHANGED <<pc, genArgs, placerVars, objVars, sorted_words, target_count, attempt,
                   available_words, word_index, attempts, result, stats>>

\* a caller runs grid.crop_empty_edges()
CropEmptyEdges ==
    /\ pc = "idle"
    /\ LET r == crop_empty_edges(grid)
       IN  /\ grid' = r.grid
           /\ call' = [op |-> "crop_empty_edges", ret |-> r.ret]
    /\ UNCHANGED <<genVars, placerVars, rndVars, objVars>>

\* the word lists a caller hands to validate_crossword with Grid g: the
\* placed words, no words, the placed words one column to the right of
\* where they are, and the placed words with a two-letter word added
ValidateArgs(g) ==
    LET words == g.placed_words IN
    {words, << >>, ShiftWords(words, 0, -1)}
      \cup (IF words = << >> THEN {}
            ELSE {Append(words, [words[1] EXCEPT !.word = <<1054, 1057>>])})

\* a caller runs Validator.validate_crossword(grid, words) on a cropped Grid
ValidateCrossword(words) ==
    /\ pc = "idle"
    /\ call.op = "crop_empty_edges"
    /\ call' = [op |-> "validate_crossword", ret |-> validate_crossword_words(grid, words)]
    /\ UNCHANGED <<grid, genVars, placerVars, rndVars, objVars>>

Next ==
    \/ \E entry \in DriverEntries, row \in DriverCoords, col \in DriverCoords,
          direction \in Directions :
            PlaceWord(entry, row, col, direction)
    \/ \E word_entry \in {InitialCandidates(InitialWordList)[k] :
                            k \in 1..Len(InitialCandidates(InitialWordList))} :
            PlaceInitialWord(word_entry)
    \/ CropEmptyEdges

Spec == Init /\ [][Next]_vars

-----------------------------------------------------------------------------
(* One generate call *)

\* the arguments generate is called with
GenCategories == {"X", "Y"}

GenDifficulties == {"easy", "medium", "hard"}

\* excluded_words: nothing, DNSLR, AYAIRV
GenExcluded ==
    { {}, {<<1044, 1053, 1057, 1051, 1056>>}, {<<1040, 1071, 1048, 1056, 1042>>} }

\* the seeds generate is called with: <<>> for None, <<s>> for the integer s
GenSeeds == {<<>>, <<1>>, <<2>>}

GenInit ==
    /\ grid = NewGrid(DEFAULT_GRID_SIZE)
    /\ call = [op |-> "Grid", ret |-> << >>]
    /\ pc = "generate"
    /\ category \in GenCategories
    /\ difficulty \in GenDifficulties
    /\ excluded_words \in GenExcluded
    /\ seed \in GenSeeds
    /\ GenBlank

\* generate up to the for loop: the seeding, then ValueError, or the
\* candidate list and the target
Generate ==
    /\ pc = "generate"
    /\ LET settings == SettingsOf(difficulty)
           seeded   == SeededRng(rng, seed)
       IN
       IF category \notin DOMAIN dictionary
       THEN /\ pc' = "raised"
            /\ rng' = seeded
            /\ UNCHANGED <<sorted_words, target_count, drawn>>
       ELSE LET filtered_words == FilteredWords(dictionary[category], settings,
                                                excluded_words) IN
            IF Len(filtered_words) < settings.word_count[1]
            THEN /\ pc' = "raised"
                 /\ rng' = seeded
                 /\ UNCHANGED <<sorted_words, target_count, drawn>>
            ELSE /\ sorted_words' = sort_words_by_score(filtered_words)
                 /\ \E k \in Draws(seeded, settings.word_count[2]
                                             - settings.word_count[1] + 1) :
                        target_count' = settings.word_count[1] + k - 1
                 /\ rng' = Advance(seeded)
                 /\ drawn' = Counted(seeded, drawn)
                 /\ pc' = "attempt"
    /\ UNCHANGED <<grid, call, genArgs, placerVars, objVars, attempt, used_words,
                   available_words, word_index, attempts, result, stats>>

\* generate after _generate_single returned None with the random generator
\* in state r and d draws made: shuffle, then the next attempt, or None once
\* MAX_REGENERATION_ATTEMPTS attempts have failed; the Grid and the
\* WordPlacer of the attempt are gone
AttemptFailedFrom(r, d) ==
    /\ \E k \in Draws(r, 2) :
          /\ sorted_words' = Shuffled(sorted_words, k)
          /\ dictionary' = DictionaryAfterShuffle(dictionary, category,
                                                  Shuffled(sorted_words, k))
    /\ rng' = Advance(r)
    /\ drawn' = Counted(r, d)
    /\ IF attempt + 1 < MAX_REGENERATION_ATTEMPTS
       THEN /\ attempt' = attempt + 1
            /\ pc' = "attempt"
       ELSE /\ attempt' = attempt
            /\ pc' = "done"
    /\ stats' = IF attempt + 1 < MAX_REGENERATION_ATTEMPTS
                THEN stats
                ELSE StatsAfter(stats, FALSE)
    /\ result' = <<>>
    /\ grid' = NewGrid(DEFAULT_GRID_SIZE)
    /\ call' = [op |-> "Grid", ret |-> << >>]
    /\ used_words' = {}
    /\ available_words' = << >>
    /\ word_index' = 0
    /\ attempts' = 0
    /\ UNCHANGED <<genArgs, placerVars, seen, other, api, target_count>>

\* generate after _generate_single returned None without a draw of its own
AttemptFailed == AttemptFailedFrom(rng, drawn)

\* _generate_single: Grid, WordPlacer, place_initial_word, and
\* place_remaining_words up to its loop
GenerateSingle ==
    /\ pc = "attempt"
    /\ IF sorted_words = << >>
       THEN AttemptFailed
       ELSE \E k \in Draws(rng, Len(InitialCandidates(sorted_words))) :
              LET word_entry == InitialCandidates(sorted_words)[k]
                  r == place_initial_word(NewGrid(DEFAULT_GRID_SIZE), {}, word_entry)
              IN
              IF ~r.ret
              THEN AttemptFailedFrom(Advance(rng), Counted(rng, drawn))
              ELSE /\ grid' = r.grid
                   /\ call' = [op |-> "place_word", ret |-> <<TRUE>>]
                   /\ used_words' = r.used
                   /\ available_words' = AvailableWords(sorted_words, r.used)
                   /\ attempts' = 0
                   /\ word_index' = 0
                   /\ pc' = "placing"
                   /\ rng' = Advance(rng)
                   /\ drawn' = Counted(rng, drawn)
                   /\ UNCHANGED <<genArgs, placerVars, objVars, sorted_words,
                                  target_count, attempt, result, stats>>

\* place_remaining_words: one pass through the body of the loop
PlaceRemainingIteration ==
    /\ LoopContinues(grid, target_count, attempts, word_index, available_words)
    /\ LET word_entry == available_words[word_index + 1]
           word       == Upper(word_entry.word)
       IN  IF IsUsed(word, used_words)
           THEN /\ word_index' = word_index + 1
                /\ UNCHANGED <<grid, call, used_words, attempts, rndVars>>
           ELSE LET top_positions == TopPositions(grid, word) IN
                IF top_positions = << >>
                THEN /\ word_index' = word_index + 1
                     /\ attempts' = attempts + 1
                     /\ UNCHANGED <<grid, call, used_words, rndVars>>
                ELSE \E k \in Draws(rng, Len(top_positions)) :
                       LET best_position == top_positions[k]
                           r == place_word(grid, word, word_entry.clue, word_entry.hint,
                                           best_position[1], best_position[2],
                                           best_position[3])
                       IN  /\ grid' = r.grid
                           /\ call' = [op |-> "place_word", ret |-> <<r.ret>>]
                           /\ rng' = Advance(rng)
                           /\ drawn' = Counted(rng, drawn)
                           /\ IF r.ret
                              THEN /\ used_words' = used_words \cup {word}
                                   /\ word_index' = word_index + 1
                                   /\ attempts' = 0
                              ELSE /\ attempts' = attempts + 1
                                   /\ UNCHANGED <<used_words, word_index>>
    /\ UNCHANGED <<pc, genArgs, placerVars, objVars, sorted_words, target_count, attempt,
                   available_words, result, stats>>

\* _generate_single: place_remaining_words runs its loop
PlaceRemainingStep ==
    /\ pc = "placing"
    /\ PlaceRemainingIteration

\* place_remaining_words returns; _generate_single checks the count and crops
PlaceRemainingDone ==
    /\ pc = "placing"
    /\ ~LoopContinues(grid, target_count, attempts, word_index, available_words)
    /\ LET placed_count == Len(grid.placed_words) IN
       IF placed_count < MIN_WORDS
       THEN AttemptFailed
       ELSE LET r == crop_empty_edges(grid) IN
            /\ grid' = r.grid
            /\ call' = [op |-> "crop_empty_edges", ret |-> r.ret]
            /\ pc' = "cropped"
            /\ UNCHANGED <<genArgs, placerVars, rndVars, objVars, sorted_words,
                           target_count, attempt, used_words, available_words,
                           word_index, attempts, result, stats>>

\* _generate_single after the crop: the size check, the validation and the
\* result; generate fills in difficulty and category and returns it
ValidateAndReturn ==
    /\ pc = "cropped"
    /\ LET height == call.ret[1]
           width  == call.ret[2]
       IN  IF height < MIN_GRID_SIZE \/ width < MIN_GRID_SIZE
           THEN AttemptFailed
           ELSE IF ~validate_crossword(grid)[1]
           THEN AttemptFailed
           ELSE /\ result' = <<[format_result(grid) EXCEPT !.difficulty = difficulty,
                                                          !.category = category]>>
                /\ stats' = StatsAfter(stats, TRUE)
                /\ pc' = "done"
                /\ UNCHANGED <<grid, call, genArgs, placerVars, rndVars, objVars,
                               sorted_words, target_count, attempt,
                               used_words, available_words, word_index, attempts>>

GenNext ==
    \/ Generate
    \/ GenerateSingle
    \/ PlaceRemainingStep
    \/ PlaceRemainingDone
    \/ ValidateAndReturn

GenSpec == GenInit /\ [][GenNext]_vars

\* Grid-level sessions and generate calls side by side
FullSpec == (Init \/ GenInit) /\ [][Next \/ GenNext]_vars

\* the same, with validate_crossword calls on the cropped Grids of the
\* Grid-level sessions
ValidatorNext ==
    \/ Next
    \/ GenNext
    \/ \E words \in ValidateArgs(grid) : ValidateCrossword(words)

ValidatorSpec == (Init \/ GenInit) /\ [][ValidatorNext]_vars

-----------------------------------------------------------------------------
(* generate calls one after another on one CrosswordGenerator *)

\* the number of generate calls made on the generator
MaxCalls == 3

\* the arguments of the calls: category X at medium difficulty with seed 1,
\* with seed 2, without a seed, and with seed 1 and DNSLR excluded
SeqCallArgs ==
    { [category |-> "X", difficulty |-> "medium", excluded_words |-> {}, seed |-> <<1>>],
      [category |-> "X", difficulty |-> "medium", excluded_words |-> {}, seed |-> <<2>>],
      [category |-> "X", difficulty |-> "medium", excluded_words |-> {}, seed |-> <<>>],
      [category |-> "X", difficulty |-> "medium",
       excluded_words |-> {<<1044, 1053, 1057, 1051, 1056>>}, seed |-> <<1>>] }

\* the states the random generator can be in when the first call starts
SeqStartStates == {<<0>>, <<21>>}

\* generator = CrosswordGenerator(path), then the first generate call
SeqInit ==
    /\ grid = NewGrid(DEFAULT_GRID_SIZE)
    /\ call = [op |-> "Grid", ret |-> << >>]
    /\ pc = "generate"
    /\ \E args \in SeqCallArgs :
          /\ category = args.category
          /\ difficulty = args.difficulty
          /\ excluded_words = args.excluded_words
          /\ seed = args.seed
    /\ sorted_words = << >>
    /\ target_count = 0
    /\ attempt = 0
    /\ used_words = {}
    /\ available_words = << >>
    /\ word_index = 0
    /\ attempts = 0
    /\ result = <<>>
    /\ stats = NewStats
    /\ best_result = 0
    /\ max_global_attempts = 0
    /\ rng \in SeqStartStates
    /\ drawn = 0
    /\ dictionary = Dictionary
    /\ seen = << >>
    /\ other = 0
    /\ api = NoRequest

\* the generate call that has just ended: its arguments and what came of it
EndedCall ==
    [ category |-> category, difficulty |-> difficulty,
      excluded_words |-> excluded_words, seed |-> seed,
      raised |-> (pc = "raised"), result |-> result, stats |-> stats ]

\* the caller, having got the puzzle, None or the ValueError of one call,
\* makes the next generate call on the same generator
NextCall(args) ==
    /\ pc \in {"done", "raised"}
    /\ Len(seen) + 1 < MaxCalls
    /\ seen' = Append(seen, EndedCall)
    /\ category' = args.category
    /\ difficulty' = args.difficulty
    /\ excluded_words' = args.excluded_words
    /\ seed' = args.seed
    /\ pc' = "generate"
    /\ grid' = NewGrid(DEFAULT_GRID_SIZE)
    /\ call' = [op |-> "Grid", ret |-> << >>]
    /\ sorted_words' = << >>
    /\ target_count' = 0
    /\ attempt' = 0
    /\ used_words' = {}
    /\ available_words' = << >>
    /\ word_index' = 0
    /\ attempts' = 0
    /\ result' = <<>>
    /\ drawn' = 0
    /\ UNCHANGED <<stats, rng, dictionary, other, api, placerVars>>

SeqNext ==
    \/ GenNext
    \/ \E args \in SeqCallArgs : NextCall(args)

SeqSpec == SeqInit /\ [][SeqNext]_vars

-----------------------------------------------------------------------------
(* A seeded generate call made twice, the second time while another
   generate call runs in the same process (another request thread): the
   two calls share the random module *)

\* the number of steps of the other call that fall within the second call
MaxOtherSteps == 1

\* the first call, made alone: category X at medium difficulty, seeded
SharedInit ==
    /\ SeqInit
    /\ seed # <<>>
    /\ excluded_words = {}

\* the caller makes the same call again
RepeatCall ==
    /\ Len(seen) = 0
    /\ NextCall([category |-> category, difficulty |-> difficulty,
                 excluded_words |-> excluded_words, seed |-> seed])

\* the second call is between its entry and its return
SecondCallRuns == Len(seen) = 1 /\ pc \in {"generate", "attempt", "placing", "cropped"}

\* the other call, made with seed s, runs "random.seed(seed)"
OtherCallSeeds(s) ==
    /\ SecondCallRuns
    /\ other = 0
    /\ other < MaxOtherSteps
    /\ rng' = <<SeedState(s[1])>>
    /\ other' = other + 1
    /\ UNCHANGED <<grid, call, genVars, placerVars, drawn, dictionary, seen, api>>

\* the other call runs random.randint, random.choice or random.shuffle
OtherCallDraws ==
    /\ SecondCallRuns
    /\ other < MaxOtherSteps
    /\ rng' = Advance(rng)
    /\ other' = other + 1
    /\ UNCHANGED <<grid, call, genVars, placerVars, drawn, dictionary, seen, api>>

SharedNext ==
    \/ GenNext
    \/ RepeatCall
    \/ \E s \in GenSeeds \ {<<>>} : OtherCallSeeds(s)
    \/ OtherCallDraws

SharedSpec == SharedInit /\ [][SharedNext]_vars

-----------------------------------------------------------------------------
(* app.get_crossword: POST /api/crossword for category X at easy or medium
   difficulty, from the loop on *)

\* app.MAX_ATTEMPTS, int(os.getenv('MAX_GENERATION_ATTEMPTS', 50)): the
\* service is run with MAX_GENERATION_ATTEMPTS=3
MAX_GENERATION_ATTEMPTS == 3

\* the states the random generator can be in when the request arrives
ApiStartStates == {<<n>> : n \in 0..15}

\* app.generate_crossword_id: the content that is hashed, that is the grid
\* and the word, startRow, startCol and direction of each word; the MD5
\* digest is not computed, the content stands for its own id
generate_crossword_id(grid_array, words) ==
    [ grid  |-> grid_array,
      words |-> [k \in 1..Len(words) |->
                   [ word      |-> words[k].word,
                     startRow  |-> words[k].startRow,
                     startCol  |-> words[k].startCol,
                     direction |-> words[k].direction ]] ]

\* the answers of get_crossword
Answer200(crossword, id, attempts_made, warned) ==
    [ status |-> 200, crossword |-> <<crossword>>, id |-> <<id>>,
      attempts |-> attempts_made, warning |-> warned ]

Answer500 ==
    [ status |-> 500, crossword |-> <<>>, id |-> <<>>,
      attempts |-> MAX_GENERATION_ATTEMPTS, warning |-> FALSE ]

Answer400 ==
    [ status |-> 400, crossword |-> <<>>, id |-> <<>>,
      attempts |-> 0, warning |-> FALSE ]

\* get_crossword up to the first generator.generate(category, difficulty)
ApiInit ==
    /\ grid = NewGrid(DEFAULT_GRID_SIZE)
    /\ call = [op |-> "Grid", ret |-> << >>]
    /\ pc = "generate"
    /\ category = "X"
    /\ difficulty \in {"easy", "medium"}
    /\ excluded_words = {}
    /\ seed = <<>>
    /\ sorted_words = << >>
    /\ target_count = 0
    /\ attempt = 0
    /\ used_words = {}
    /\ available_words = << >>
    /\ word_index = 0
    /\ attempts = 0
    /\ result = <<>>
    /\ stats = NewStats
    /\ best_result = 0
    /\ max_global_attempts = 0
    /\ rng \in ApiStartStates
    /\ drawn = 0
    /\ dictionary = Dictionary
    /\ seen = << >>
    /\ other = 0
    /\ api = NoRequest

\* get_crossword goes round the loop: the next generator.generate call
ApiNextAttempt(crossword, crossword_id, excluded_set) ==
    /\ api' = [api EXCEPT !.attempt = @ + 1, !.crossword = crossword,
                          !.crossword_id = crossword_id,
                          !.excluded_set = excluded_set]
    /\ seen' = Append(seen, EndedCall)
    /\ pc' = "generate"
    /\ grid' = NewGrid(DEFAULT_GRID_SIZE)
    /\ call' = [op |-> "Grid", ret |-> << >>]
    /\ sorted_words' = << >>
    /\ target_count' = 0
    /\ attempt' = 0
    /\ used_words' = {}
    /\ available_words' = << >>
    /\ word_index' = 0
    /\ attempts' = 0
    /\ result' = <<>>
    /\ drawn' = 0
    /\ UNCHANGED <<genArgs, stats, rng, dictionary, other, placerVars>>

\* get_crossword answers
ApiAnswers(crossword, crossword_id, excluded_set, response) ==
    /\ api' = [api EXCEPT !.crossword = crossword, !.crossword_id = crossword_id,
                          !.excluded_set = excluded_set, !.response = <<response>>]
    /\ seen' = Append(seen, EndedCall)
    /\ pc' = "answered"
    /\ UNCHANGED <<grid, call, genArgs, placerVars, rndVars, dictionary, other,
                   sorted_words, target_count, attempt, used_words, available_words,
                   word_index, attempts, result, stats>>

\* what get_crossword does after the loop with its locals as given
ApiAfterLoop(crossword, crossword_id, excluded_set) ==
    IF crossword # <<>>
    THEN ApiAnswers(crossword, crossword_id, excluded_set,
                    Answer200(crossword[1], crossword_id[1],
                              MAX_GENERATION_ATTEMPTS, TRUE))
    ELSE ApiAnswers(crossword, crossword_id, excluded_set, Answer500)

\* generator.generate has returned: the body of the loop, and the code after
\* the loop when that was the last round.  The request's excluded_ids are an
\* input: whether an id is among them is settled when the id first comes up
ApiGenerateReturned ==
    /\ pc = "done"
    /\ api.response = <<>>
    /\ LET last == api.attempt + 1 >= MAX_GENERATION_ATTEMPTS IN
       IF result = <<>>
       THEN IF last
            THEN ApiAfterLoop(<<>>, api.crossword_id, api.excluded_set)
            ELSE ApiNextAttempt(<<>>, api.crossword_id, api.excluded_set)
       ELSE LET crossword_id == generate_crossword_id(result[1].grid, result[1].words) IN
            \/ /\ crossword_id \notin api.excluded_set
               /\ ApiAnswers(result, <<crossword_id>>, api.excluded_set,
                             Answer200(result[1], crossword_id, api.attempt + 1, FALSE))
            \/ LET excluded_set == api.excluded_set \cup {crossword_id} IN
               IF last
               THEN ApiAfterLoop(result, <<crossword_id>>, excluded_set)
               ELSE ApiNextAttempt(result, <<crossword_id>>, excluded_set)

\* generator.generate has raised ValueError: the except clause answers 400
ApiValueError ==
    /\ pc = "raised"
    /\ api.response = <<>>
    /\ ApiAnswers(api.crossword, api.crossword_id, api.excluded_set, Answer400)

ApiNext ==
    \/ GenNext
    \/ ApiGenerateReturned
    \/ ApiValueError

ApiSpec == ApiInit /\ [][ApiNext]_vars

-----------------------------------------------------------------------------
(* A WordPlacer on a small Grid: place_initial_word, then
   place_words_with_backtracking *)

\* the word_list of the WordPlacer: LETO, KOTY, KOT (transliterated)
PlacerWordList ==
    << [word |-> <<1051, 1045, 1058, 1054>>, clue |-> 1, hint |-> 1],
       [word |-> <<1050, 1054, 1058, 1067>>, clue |-> 2, hint |-> 2],
       [word |-> <<1050, 1054, 1058>>,       clue |-> 3, hint |-> 3] >>

\* the target_count arguments of place_words_with_backtracking
PlacerTargets == {2, 4}

\* the max_global_attempts arguments of place_words_with_backtracking
PlacerGlobalAttempts == 0..2

\* grid = Grid(GridSize); placer = WordPlacer(grid, PlacerWordList)
PlacerInit ==
    /\ grid = NewGrid(GridSize)
    /\ call = [op |-> "Grid", ret |-> << >>]
    /\ pc = "placer"
    /\ category = None
    /\ difficulty = None
    /\ excluded_words = {}
    /\ sorted_words = PlacerWordList
    /\ target_count = 0
    /\ attempt = 0
    /\ used_words = {}
    /\ available_words = << >>
    /\ word_index = 0
    /\ attempts = 0
    /\ result = <<>>
    /\ stats = NewStats
    /\ best_result = 0
    /\ max_global_attempts = 0
    /\ seed = <<>>
    /\ rng = <<>>
    /\ drawn = 0
    /\ dictionary = Dictionary
    /\ seen = << >>
    /\ other = 0
    /\ api = NoRequest

\* the caller runs placer.place_initial_word(); random.choice returns word_entry
PlacerInitialWord(word_entry) ==
    /\ pc = "placer"
    /\ call.op = "Grid"
    /\ LET r == place_initial_word(grid, used_words, word_entry)
       IN  /\ grid' = r.grid
           /\ used_words' = r.used
           /\ call' = [op |-> "place_initial_word", ret |-> <<r.ret>>]
    /\ rng' = Advance(rng)
    /\ drawn' = Counted(rng, drawn)
    /\ UNCHANGED <<pc, genArgs, placerVars, objVars, sorted_words, target_count, attempt,
                   available_words, word_index, attempts, result, stats>>

\* the caller runs placer.place_words_with_backtracking(target, max_attempts):
\* the locals, and the first place_remaining_words call up to its loop;
\* with max_attempts = 0 the for loop is empty and best_result is returned
StartBacktracking(target, max_attempts) ==
    /\ pc = "placer"
    /\ target_count' = target
    /\ max_global_attempts' = max_attempts
    /\ best_result' = 0
    /\ attempt' = 0
    /\ word_index' = 0
    /\ attempts' = 0
    /\ IF max_attempts = 0
       THEN /\ pc' = "placer_done"
            /\ call' = [op |-> "place_words_with_backtracking", ret |-> <<0>>]
            /\ UNCHANGED available_words
       ELSE /\ pc' = "bt_placing"
            /\ available_words' = AvailableWords(sorted_words, used_words)
            /\ UNCHANGED call
    /\ UNCHANGED <<grid, genArgs, rndVars, objVars, sorted_words, used_words, result, stats>>

\* place_words_with_backtracking: place_remaining_words runs its loop
BacktrackingPlaceStep ==
    /\ pc = "bt_placing"
    /\ PlaceRemainingIteration

\* place_words_with_backtracking: place_remaining_words returns
\* current_count; the rest of the body of the for loop, that is the best
\* result, the break, or _reset_grid, shuffle, place_initial_word and the
\* next place_remaining_words call up to its loop; after the last pass
\* best_result is returned
BacktrackingPlaceDone ==
    /\ pc = "bt_placing"
    /\ ~LoopContinues(grid, target_count, attempts, word_index, available_words)
    /\ LET current_count == Len(grid.placed_words)
           best          == IF current_count > best_result
                            THEN current_count ELSE best_result
       IN  /\ best_result' = best
           /\ IF current_count >= target_count \/ attempt >= max_global_attempts - 1
              THEN /\ pc' = "placer_done"
                   /\ call' = [op |-> "place_words_with_backtracking", ret |-> <<best>>]
                   /\ UNCHANGED <<grid, sorted_words, used_words, attempt,
                                  available_words, word_index, attempts, rndVars>>
              ELSE \E j \in Draws(rng, 2) :
                   LET shuffled == Shuffled(sorted_words, j) IN
                   \E k \in Draws(Advance(rng), Len(InitialCandidates(shuffled))) :
                     LET word_entry == InitialCandidates(shuffled)[k]
                         r == place_initial_word(NewGrid(grid.size), {}, word_entry)
                     IN  /\ rng' = Advance(Advance(rng))
                         /\ drawn' = Counted(rng, Counted(rng, drawn))
                         /\ sorted_words' = shuffled
                         /\ grid' = r.grid
                         /\ used_words' = r.used
                         /\ call' = [op |-> "place_initial_word", ret |-> <<r.ret>>]
                         /\ attempt' = attempt + 1
                         /\ available_words' = AvailableWords(shuffled, r.used)
                         /\ word_index' = 0
                         /\ attempts' = 0
                         /\ pc' = "bt_placing"
    /\ UNCHANGED <<genArgs, objVars, target_count, max_global_attempts, result, stats>>

PlacerNext ==
    \/ \E word_entry \in {InitialCandidates(sorted_words)[k] :
                            k \in 1..Len(InitialCandidates(sorted_words))} :
            PlacerInitialWord(word_entry)
    \/ \E target \in PlacerTargets, max_attempts \in PlacerGlobalAttempts :
            StartBacktracking(target, max_attempts)
    \/ BacktrackingPlaceStep
    \/ BacktrackingPlaceDone

PlacerSpec == PlacerInit /\ [][PlacerNext]_vars


-----------------------------------------------------------------------------
(* Properties *)

\* generate has returned a puzzle
Returned == pc = "done" /\ result # <<>>

\* the puzzle generate returned
Puzzle == result[1]

\* the words of a returned puzzle as placements (word, row, col, direction)
ResultPlaced(res) ==
    [k \in 1..Len(res.words) |->
        [ word      |-> res.words[k].word,
          row       |-> res.words[k].startRow,
          col       |-> res.words[k].startCol,
          direction |-> res.words[k].direction ]]

\* the number of rows and of columns of a returned grid
ResultHeight(res) == Len(res.grid)

ResultWidth(res) == IF Len(res.grid) > 0 THEN Len(res.grid[1]) ELSE 0

\* the letter of a returned grid at (row, col), both 0-based
ResultCell(res, row, col) == res.grid[row + 1][col + 1]

\* the number of non-empty cells of a returned grid
ResultFilled(res) ==
    Cardinality({rc \in (0..(ResultHeight(res) - 1)) \X (0..(ResultWidth(res) - 1)) :
                    ResultCell(res, rc[1], rc[2]) # EMPTY})

\* the arguments the place_word statements below range over
PlaceWordArgs == DriverEntries \X DriverCoords \X DriverCoords \X Directions

\* C1, on one argument tuple: place_word returns what can_place_word returns;
\* when that is false the Grid it leaves is the Grid it found; when it is true
\* the letters of the word are on the board, every other cell is as before and
\* the word is appended to the placed words
PlaceWordFollowsCanPlace(g, entry, row, col, direction) ==
    LET ok == can_place_word(g, entry.word, row, col, direction)
        r  == place_word(g, entry.word, entry.clue, entry.hint, row, col, direction)
        w  == Upper(entry.word)
    IN  /\ r.ret = ok
        /\ ~ok => r.grid = g
        /\ ok => /\ r.grid # g
                 /\ r.grid.placed_words =
                        Append(g.placed_words,
                               [ word |-> w, clue |-> entry.clue, hint |-> entry.hint,
                                 row |-> row, col |-> col, direction |-> direction ])
                 /\ \A i \in 0..(Len(w) - 1) :
                        r.grid.cells[CellAt(row, col, direction, i)] = w[i + 1]
                 /\ \A rc \in DOMAIN g.cells :
                        rc \notin WordCells(Len(w), row, col, direction)
                            => r.grid.cells[rc] = g.cells[rc]

\* C1: in every Grid state and for every argument tuple, place_word changes the
\* Grid (letters written, PlacedWord appended) if and only if can_place_word
\* returns true for the same arguments; when it returns false, place_word
\* returns False and the board and the placed words are unchanged.  The second
\* conjunct says the same of every call a caller made: it returned True exactly
\* when the Grid changed, and then exactly one word was appended.
C1_PlaceIffCanPlace ==
    /\ [](\A a \in PlaceWordArgs : PlaceWordFollowsCanPlace(grid, a[1], a[2], a[3], a[4]))
    /\ [][ (pc = "idle" /\ call'.op = "place_word")
             => /\ (call'.ret = <<TRUE>>) <=> (grid' # grid)
                /\ (call'.ret = <<TRUE>>)
                     => Len(grid'.placed_words) = Len(grid.placed_words) + 1
                /\ (call'.ret = <<TRUE>>) \/ (call'.ret = <<FALSE>>) ]_vars

\* C1 witness: a place_word call was refused on a Grid that holds a word an
\* earlier call placed
C1_Witness ==
    /\ pc = "idle"
    /\ call.op = "place_word"
    /\ call.ret = <<FALSE>>
    /\ Len(grid.placed_words) >= 1

\* every placed word lies inside the board and the board spells it
WordsOnBoard(g) ==
    \A k \in 1..Len(g.placed_words) :
        LET placed == g.placed_words[k] IN
        \A i \in 0..(Len(placed.word) - 1) :
            LET rc == CellAt(placed.row, placed.col, placed.direction, i) IN
            /\ 0 <= rc[1] /\ rc[1] < g.height
            /\ 0 <= rc[2] /\ rc[2] < g.width
            /\ g.cells[rc] = placed.word[i + 1]

\* every word of a returned puzzle lies inside the returned grid, which spells it
ResultWordsOnGrid(res) ==
    \A k \in 1..Len(res.words) :
        LET w == res.words[k] IN
        /\ w.length = Len(w.word)
        /\ \A i \in 0..(w.length - 1) :
            LET rc == CellAt(w.startRow, w.startCol, w.direction, i) IN
            /\ 0 <= rc[1] /\ rc[1] < ResultHeight(res)
            /\ 0 <= rc[2] /\ rc[2] < ResultWidth(res)
            /\ ResultCell(res, rc[1], rc[2]) = w.word[i + 1]

\* C2: after any sequence of place_word calls on an empty Grid, with or without
\* a crop_empty_edges after them, every placed word lies inside the board and
\* the board holds its i-th letter i steps from its origin; the same holds for
\* the grid and the words of every puzzle generate returns.
C2_WordsReadFromBoard ==
    /\ WordsOnBoard(grid)
    /\ Returned => ResultWordsOnGrid(Puzzle)

\* C2 witness: a Grid with two words that cross, cropped, the crop having
\* moved the origins
C2_Witness ==
    /\ pc = "idle"
    /\ call.op = "crop_empty_edges"
    /\ Len(grid.placed_words) = 2
    /\ words_intersect(grid.placed_words[1], grid.placed_words[2])
    /\ grid.height < GridSize
    /\ grid.width < GridSize

\* C3 (refuted by the code): in every grid the placer builds and in every
\* returned puzzle no two words of the same direction lie one row (column)
\* apart with overlapping column (row) ranges, that is,
\* check_no_adjacent_parallel returns true.
C3_NoAdjacentParallel ==
    /\ pc \in {"placing", "cropped", "done"} => check_no_adjacent_parallel(grid.placed_words)
    /\ Returned => check_no_adjacent_parallel(ResultPlaced(Puzzle))

\* word k shares a cell with a word committed before it
CrossesEarlierWord(words, k) ==
    \E m \in 1..(k - 1) :
        WordCells(Len(words[m].word), words[m].row, words[m].col, words[m].direction)
          \cap WordCells(Len(words[k].word), words[k].row, words[k].col,
                         words[k].direction) # {}

\* C4: every word the placer commits after the first shares a cell with a
\* word committed before it, so the placed words are connected under "shares
\* a cell" after every step, and so are the words of every returned puzzle.
C4_WordsConnected ==
    /\ \A k \in 2..Len(grid.placed_words) : CrossesEarlierWord(grid.placed_words, k)
    /\ check_all_words_connected(grid.placed_words)
    /\ Returned => /\ \A k \in 2..Len(Puzzle.words) :
                        CrossesEarlierWord(ResultPlaced(Puzzle), k)
                   /\ check_all_words_connected(ResultPlaced(Puzzle))

\* C4 witness: the placer has committed a third word
C4_Witness ==
    /\ pc = "placing"
    /\ Len(grid.placed_words) = 3
    /\ call = [op |-> "place_word", ret |-> <<TRUE>>]

\* no two words of the list have the same string
NoDuplicateWords(words) ==
    \A i \in 1..Len(words), j \in 1..Len(words) :
        i # j => words[i].word # words[j].word

\* C5: the words of a returned puzzle are pairwise different strings, also
\* when the category holds a word twice or in two spellings: the placer never
\* commits a word whose capital form it has already used.
C5_NoDuplicateWords ==
    /\ pc \in {"placing", "cropped", "done"}
         => /\ NoDuplicateWords(grid.placed_words)
            /\ used_words = {grid.placed_words[k].word : k \in 1..Len(grid.placed_words)}
    /\ Returned => NoDuplicateWords(Puzzle.words)

\* C5 witness: a puzzle is returned that holds a word the candidate list
\* offers in two spellings
C5_Witness ==
    /\ Returned
    /\ \E i \in 1..Len(sorted_words), j \in 1..Len(sorted_words), k \in 1..Len(Puzzle.words) :
        /\ sorted_words[i].word # sorted_words[j].word
        /\ Upper(sorted_words[i].word) = Upper(sorted_words[j].word)
        /\ Puzzle.words[k].word = Upper(sorted_words[i].word)

\* C6 (refuted by the code): after any sequence of place_word calls on a Grid
\* no two committed words have the same capital string.
C6_GridNeverCommitsTwice ==
    pc = "idle" => NoDuplicateWords(grid.placed_words)

\* every non-empty cell of the board is a cell of a placed word
LettersCovered(g) ==
    \A rc \in DOMAIN g.cells :
        g.cells[rc] # EMPTY
          => \E k \in 1..Len(g.placed_words) :
               rc \in WordCells(Len(g.placed_words[k].word), g.placed_words[k].row,
                                g.placed_words[k].col, g.placed_words[k].direction)

\* every non-empty cell of a returned grid is a cell of a returned word
ResultLettersCovered(res) ==
    \A row \in 0..(ResultHeight(res) - 1), col \in 0..(ResultWidth(res) - 1) :
        ResultCell(res, row, col) # EMPTY
          => \E k \in 1..Len(res.words) :
               <<row, col>> \in WordCells(res.words[k].length, res.words[k].startRow,
                                          res.words[k].startCol, res.words[k].direction)

\* C7: in every Grid reached from an empty one by place_word calls and a
\* crop_empty_edges, and in every returned puzzle, every non-empty cell of the
\* board is a cell of at least one placed word.
C7_LettersLieOnWords ==
    /\ LettersCovered(grid)
    /\ Returned => ResultLettersCovered(Puzzle)

\* C7 witness: a cropped Grid whose first word no longer starts where it was
\* placed, every cell of the first row or column of the old board being empty
C7_Witness ==
    /\ pc = "idle"
    /\ call.op = "crop_empty_edges"
    /\ Len(grid.placed_words) >= 1
    /\ grid.height * grid.width < GridSize * GridSize
    /\ \E rc \in DOMAIN grid.cells : grid.cells[rc] = EMPTY

C9_GridSizeIsBoundingBox ==
    Returned =>
        LET h == ResultHeight(Puzzle)
            w == ResultWidth(Puzzle)
        IN  /\ Puzzle.metadata.grid_size = <<h, w>>
            /\ \A r \in 1..h : Len(Puzzle.grid[r]) = w
            /\ h >= 6 /\ w >= 6
            /\ \E c \in 0..(w - 1) : ResultCell(Puzzle, 0, c) # EMPTY
            /\ \E c \in 0..(w - 1) : ResultCell(Puzzle, h - 1, c) # EMPTY
            /\ \E r \in 0..(h - 1) : ResultCell(Puzzle, r, 0) # EMPTY
            /\ \E r \in 0..(h - 1) : ResultCell(Puzzle, r, w - 1) # EMPTY

\* C9 witness: a puzzle is returned whose grid the crop has made smaller than
\* the board the placer worked on
C9_Witness ==
    /\ Returned
    /\ Puzzle.metadata.grid_size[1] < DEFAULT_GRID_SIZE
    /\ Puzzle.metadata.grid_size[2] < DEFAULT_GRID_SIZE

\* C10: the non-empty cells of a returned grid are at least 30% and at most
\* 70% of its cells, and metadata.fill_density (in hundredths) is that share
\* rounded to two decimals: no hundredth is nearer to it.
C10_FillDensityWindow ==
    Returned =>
        LET total  == ResultHeight(Puzzle) * ResultWidth(Puzzle)
            filled == ResultFilled(Puzzle)
            fd     == Puzzle.metadata.fill_density
        IN  /\ 3 * total <= 10 * filled
            /\ 10 * filled <= 7 * total
            /\ 2 * Abs(100 * filled - fd * total) <= total
            /\ 30 <= fd /\ fd <= 70

\* C10 witness: a puzzle is returned whose density is no whole number of
\* hundredths, so that the rounding has changed it
C10_Witness ==
    /\ Returned
    /\ (100 * ResultFilled(Puzzle)) % (ResultHeight(Puzzle) * ResultWidth(Puzzle)) # 0

\* the letter of the board at rc, EMPTY outside the board
LetterAt(g, rc) == IF rc \in DOMAIN g.cells THEN g.cells[rc] ELSE EMPTY

\* the two neighbours of rc across a word of the given direction
SideNeighbours(rc, direction) ==
    IF direction = "horizontal"
    THEN {<<rc[1] - 1, rc[2]>>, <<rc[1] + 1, rc[2]>>}
    ELSE {<<rc[1], rc[2] - 1>>, <<rc[1], rc[2] + 1>>}

\* a committed word of the other direction covers rc
CrossedAt(g, rc, direction) ==
    \E k \in 1..Len(g.placed_words) :
        /\ g.placed_words[k].direction # direction
        /\ rc \in WordCells(Len(g.placed_words[k].word), g.placed_words[k].row,
                            g.placed_words[k].col, g.placed_words[k].direction)

\* some cell the word would newly write has a letter beside it and no
\* committed word of the other direction through it
TouchesSideways(g, length, row, col, direction) ==
    \E i \in 0..(length - 1) :
        LET rc == CellAt(row, col, direction, i) IN
        /\ rc \in DOMAIN g.cells
        /\ g.cells[rc] = EMPTY
        /\ \E n \in SideNeighbours(rc, direction) : LetterAt(g, n) # EMPTY
        /\ ~CrossedAt(g, rc, direction)

\* C11: can_place_word returns false whenever a cell the word would newly
\* write (an empty cell) has a non-empty neighbour across the word's direction
\* and no committed word of the other direction runs through that cell; so a
\* word laid beside a parallel word without crossing anything is refused.
C11_NoSidewaysTouch ==
    \A a \in PlaceWordArgs :
        TouchesSideways(grid, Len(a[1].word), a[2], a[3], a[4])
            => ~can_place_word(grid, a[1].word, a[2], a[3], a[4])

\* C11 witness: a place_word call was refused on a Grid where some word fits
\* the board, meets no other letter on its cells and has free end cells, and
\* lies beside a placed word of its own direction
C11_Witness ==
    /\ pc = "idle"
    /\ call = [op |-> "place_word", ret |-> <<FALSE>>]
    /\ \E a \in PlaceWordArgs :
        LET w == Upper(a[1].word) IN
        /\ FitsBoard(grid, Len(w), a[2], a[3], a[4])
        /\ \A i \in 0..(Len(w) - 1) : grid.cells[CellAt(a[2], a[3], a[4], i)] = EMPTY
        /\ EndCapsFree(grid, Len(w), a[2], a[3], a[4])
        /\ TouchesSideways(grid, Len(w), a[2], a[3], a[4])
        /\ \E k \in 1..Len(grid.placed_words) : grid.placed_words[k].direction = a[4]

\* the cell just before the origin and the cell just after the last letter
EndCaps(length, row, col, direction) ==
    {CellAt(row, col, direction, -1), CellAt(row, col, direction, length)}

\* both end cells are empty or outside the board
EndCapsClear(g, length, row, col, direction) ==
    \A rc \in EndCaps(length, row, col, direction) : LetterAt(g, rc) = EMPTY

\* C12: can_place_word returns true only if the cell just before the word's
\* origin and the cell just after its last letter are each empty or outside
\* the board; so whenever a word is committed, on the Grid as it was at that
\* moment neither end cell of the word held a letter.
C12_EndCapsEmpty ==
    /\ [](\A a \in PlaceWordArgs :
            can_place_word(grid, a[1].word, a[2], a[3], a[4])
                => EndCapsClear(grid, Len(a[1].word), a[2], a[3], a[4]))
    /\ [][ Len(grid'.placed_words) = Len(grid.placed_words) + 1
             => LET placed == grid'.placed_words[Len(grid'.placed_words)]
                IN  EndCapsClear(grid, Len(placed.word), placed.row, placed.col,
                                 placed.direction) ]_vars

\* C12 witness: a place_word call was refused on a Grid where some word fits
\* the board and passes the letter loop, and the cell before or after it,
\* inside the board, holds a letter
C12_Witness ==
    /\ pc = "idle"
    /\ call = [op |-> "place_word", ret |-> <<FALSE>>]
    /\ \E a \in PlaceWordArgs :
        LET w == Upper(a[1].word) IN
        /\ FitsBoard(grid, Len(w), a[2], a[3], a[4])
        /\ LettersFit(grid, w, a[2], a[3], a[4])
        /\ ~EndCapsClear(grid, Len(w), a[2], a[3], a[4])

\* some cell the word would occupy holds a letter other than the word's
LetterMismatch(g, w, row, col, direction) ==
    \E i \in 0..(Len(w) - 1) :
        LET rc == CellAt(row, col, direction, i) IN
        LetterAt(g, rc) # EMPTY /\ LetterAt(g, rc) # w[i + 1]

\* the word lies on the board, and no other rule of can_place_word applies:
\* no empty cell of it has a letter beside it, and its end cells are clear
OtherRulesPass(g, w, row, col, direction) ==
    /\ WordCells(Len(w), row, col, direction) \subseteq DOMAIN g.cells
    /\ \A i \in 0..(Len(w) - 1) :
          LET rc == CellAt(row, col, direction, i) IN
          g.cells[rc] = EMPTY
             => \A n \in SideNeighbours(rc, direction) : LetterAt(g, n) = EMPTY
    /\ EndCapsClear(g, Len(w), row, col, direction)

\* C13: can_place_word returns false whenever a cell the word would occupy
\* holds a letter different from the word's letter there; a word whose cells
\* are all empty or hold the same letter is not refused for its letters (if
\* the other rules pass, it is accepted); and then place_word succeeds and the
\* words placed before stay, so a word crossing a placed word at a matching
\* letter is placed and both are present.
C13_LetterConflictRule ==
    \A a \in PlaceWordArgs :
        LET w == Upper(a[1].word)
            r == place_word(grid, a[1].word, a[1].clue, a[1].hint, a[2], a[3], a[4])
        IN  /\ LetterMismatch(grid, w, a[2], a[3], a[4])
                => ~can_place_word(grid, a[1].word, a[2], a[3], a[4])
            /\ (~LetterMismatch(grid, w, a[2], a[3], a[4])
                  /\ OtherRulesPass(grid, w, a[2], a[3], a[4]))
                => /\ can_place_word(grid, a[1].word, a[2], a[3], a[4])
                   /\ r.ret
                   /\ Len(r.grid.placed_words) = Len(grid.placed_words) + 1
                   /\ \A k \in 1..Len(grid.placed_words) :
                         r.grid.placed_words[k] = grid.placed_words[k]
                   /\ r.grid.placed_words[Len(r.grid.placed_words)].word = w

\* C13 witness: the last call placed a word across a word of the other
\* direction, the two share a cell, and some other word that lies on the board
\* would meet a different letter
C13_Witness ==
    /\ pc = "idle"
    /\ call = [op |-> "place_word", ret |-> <<TRUE>>]
    /\ Len(grid.placed_words) = 2
    /\ grid.placed_words[1].direction # grid.placed_words[2].direction
    /\ words_intersect(grid.placed_words[1], grid.placed_words[2])
    /\ \E a \in PlaceWordArgs :
        /\ FitsBoard(grid, Len(a[1].word), a[2], a[3], a[4])
        /\ LetterMismatch(grid, Upper(a[1].word), a[2], a[3], a[4])

\* the words get_intersections is asked about: in the Grid driver every
\* driver word, in a generate call the word place_remaining_words is at
IntersectionWords ==
    IF pc = "idle"
    THEN {e.word : e \in DriverEntries}
    ELSE IF pc = "placing" /\ word_index < Len(available_words)
         THEN {available_words[word_index + 1].word}
         ELSE {}

\* the direction across the given one
Across(direction) == IF direction = "horizontal" THEN "vertical" ELSE "horizontal"

\* the origin of the word of direction Across(placed.direction) whose letter j
\* lies on letter i of the placed word (both 0-based)
OriginThrough(placed, i, j) ==
    LET rc == CellAt(placed.row, placed.col, placed.direction, i)
        back == CellAt(0, 0, Across(placed.direction), j)
    IN  <<rc[1] - back[1], rc[2] - back[2]>>

\* letter i of placed word k is letter j of w
LetterPairs(g, w) ==
    UNION { { <<k, i, j>> : i \in {x \in 0..(Len(g.placed_words[k].word) - 1) :
                                     g.placed_words[k].word[x + 1] = w[j + 1]} } :
            k \in 1..Len(g.placed_words), j \in 0..(Len(w) - 1) }

\* the cells of the candidate whose letter on the board is the word's letter
MatchingCells(g, w, row, col, direction) ==
    {i \in 0..(Len(w) - 1) : LetterAt(g, CellAt(row, col, direction, i)) = w[i + 1]}

\* C14: every tuple (row, col, dir, crossings) get_intersections returns can
\* be placed; it runs across a committed word with which it shares a matching
\* letter, cell for cell; crossings is the number of its cells whose letter on
\* the board is the word's letter, at least 1.  Conversely every pairing of a
\* letter of a committed word with the same letter of the word whose position
\* passes can_place_word is returned.
C14_GetIntersections ==
    \A word \in IntersectionWords :
        LET w   == Upper(word)
            res == get_intersections(grid, word)
        IN  /\ \A n \in 1..Len(res) :
                 LET t == res[n] IN
                 /\ can_place_word(grid, word, t[1], t[2], t[3])
                 /\ \E p \in LetterPairs(grid, w) :
                       /\ grid.placed_words[p[1]].direction = Across(t[3])
                       /\ CellAt(t[1], t[2], t[3], p[3])
                            = CellAt(grid.placed_words[p[1]].row, grid.placed_words[p[1]].col,
                                     grid.placed_words[p[1]].direction, p[2])
                 /\ t[4] = Cardinality(MatchingCells(grid, w, t[1], t[2], t[3]))
                 /\ t[4] >= 1
            /\ \A p \in LetterPairs(grid, w) :
                 LET placed == grid.placed_words[p[1]]
                     o      == OriginThrough(placed, p[2], p[3])
                 IN  can_place_word(grid, word, o[1], o[2], Across(placed.direction))
                        => \E n \in 1..Len(res) :
                              /\ res[n][1] = o[1]
                              /\ res[n][2] = o[2]
                              /\ res[n][3] = Across(placed.direction)

\* C14 witness: get_intersections returns a position that crosses two words,
\* and some pairing of equal letters is left out because it cannot be placed
C14_Witness ==
    \E word \in IntersectionWords :
        LET w   == Upper(word)
            res == get_intersections(grid, word)
        IN  /\ \E n \in 1..Len(res) : res[n][4] >= 2
            /\ \E p \in LetterPairs(grid, w) :
                 LET placed == grid.placed_words[p[1]]
                     o      == OriginThrough(placed, p[2], p[3])
                 IN  ~can_place_word(grid, word, o[1], o[2], Across(placed.direction))

\* the Grid holds a letter
HasLetters(g) == \E rc \in DOMAIN g.cells : g.cells[rc] # EMPTY

\* what crop_empty_edges is to do with Grid g: mr, xr, mc, xc are the first
\* and last row and column that hold a letter; the board becomes that
\* rectangle, letter for letter, and every origin moves by (mr, mc)
CropsToBoundingBox(g) ==
    LET r    == crop_empty_edges(g)
        ng   == r.grid
        rows == {x \in 0..(g.height - 1) : \E y \in 0..(g.width - 1) : g.cells[<<x, y>>] # EMPTY}
        cols == {y \in 0..(g.width - 1) : \E x \in 0..(g.height - 1) : g.cells[<<x, y>>] # EMPTY}
        mr   == CHOOSE x \in rows : \A z \in rows : x <= z
        xr   == CHOOSE x \in rows : \A z \in rows : z <= x
        mc   == CHOOSE y \in cols : \A z \in cols : y <= z
        xc   == CHOOSE y \in cols : \A z \in cols : z <= y
    IN    /\ r.ret = <<xr - mr + 1, xc - mc + 1>>
          /\ ng.height = xr - mr + 1
          /\ ng.width = xc - mc + 1
          /\ DOMAIN ng.cells = (0..(xr - mr)) \X (0..(xc - mc))
          /\ \A rc \in DOMAIN ng.cells : ng.cells[rc] = g.cells[<<rc[1] + mr, rc[2] + mc>>]
          /\ Len(ng.placed_words) = Len(g.placed_words)
          /\ \A k \in 1..Len(g.placed_words) :
                /\ ng.placed_words[k].row = g.placed_words[k].row - mr
                /\ ng.placed_words[k].col = g.placed_words[k].col - mc
                /\ ng.placed_words[k].row >= 0
                /\ ng.placed_words[k].col >= 0
                /\ ng.placed_words[k].word = g.placed_words[k].word
                /\ ng.placed_words[k].direction = g.placed_words[k].direction
                /\ ng.placed_words[k].clue = g.placed_words[k].clue
                /\ ng.placed_words[k].hint = g.placed_words[k].hint

\* C15: crop_empty_edges on a Grid that holds a letter rewrites the board to
\* the minimal bounding rectangle of its letters, returns that rectangle's
\* (height, width), subtracts (min_row, min_col) from the origin of every
\* placed word and keeps every letter: the cell (r, c) after the crop is the
\* cell (r + min_row, c + min_col) before it; no origin becomes negative.
C15_CropToBoundingBox ==
    HasLetters(grid) => CropsToBoundingBox(grid)

\* C15 witness: a four-letter word placed horizontally and then cropped: the
\* board is 1 by 4 and the word starts at (0, 0)
C15_Witness ==
    /\ pc = "idle"
    /\ call = [op |-> "crop_empty_edges", ret |-> <<1, 4>>]
    /\ grid.height = 1 /\ grid.width = 4
    /\ Len(grid.placed_words) = 1
    /\ grid.placed_words[1].row = 0
    /\ grid.placed_words[1].col = 0

\* C16: crop_empty_edges is idempotent: applied to a Grid that has been
\* cropped it leaves the board, its height and width and every placed word
\* as they are and returns the same (height, width) as the first crop.
C16_CropIdempotent ==
    /\ LET first  == crop_empty_edges(grid)
           second == crop_empty_edges(first.grid)
       IN  second.grid = first.grid /\ second.ret = first.ret
    /\ call.op = "crop_empty_edges"
         => crop_empty_edges(grid) = [ret |-> call.ret, grid |-> grid]

\* C16 witness: a Grid with two words has been cropped to a smaller board,
\* and cropping it again gives the value the crop returned
C16_Witness ==
    /\ pc = "idle"
    /\ call.op = "crop_empty_edges"
    /\ Len(grid.placed_words) = 2
    /\ grid.height < GridSize \/ grid.width < GridSize
    /\ crop_empty_edges(grid).ret = call.ret
    /\ call.ret = <<grid.height, grid.width>>

\* the number of entries of the working list place_remaining_words has
\* reached: those before word_index and the one at it
Reached == IF word_index < Len(available_words) THEN word_index + 1 ELSE Len(available_words)

InitialWordStep ==
    \/ pc = "idle" /\ call.op = "Grid" /\ call'.op = "place_initial_word"
    \/ pc = "attempt" /\ pc' \in {"placing", "attempt", "done"} /\ sorted_words # << >>

\* the list the placer of that step was given
InitialWordListOf == IF pc = "idle" THEN InitialWordList ELSE sorted_words

\* fewer than five entries of the list are longer than entry k
AmongFiveLongest(word_list, k) ==
    Cardinality({j \in 1..Len(word_list) :
                    Len(word_list[j].word) > Len(word_list[k].word)}) < 5

\* the Grid of side size with the one word w written from (row, col) rightwards
GridWithRow(size, entry, row, col) ==
    LET w == Upper(entry.word) IN
    [ cells  |-> [rc \in (0..(size - 1)) \X (0..(size - 1)) |->
                    IF rc[1] = row /\ col <= rc[2] /\ rc[2] < col + Len(w)
                    THEN w[rc[2] - col + 1] ELSE EMPTY],
      height |-> size,
      width  |-> size,
      size   |-> size,
      placed_words |-> << [ word |-> w, clue |-> entry.clue, hint |-> entry.hint,
                            row |-> row, col |-> col, direction |-> "horizontal" ] >> ]

\* C18: place_initial_word picks one of the five longest entries of its list
\* and, on an empty square Grid of side size, commits it horizontally with
\* origin row size/2 and origin column (size - length)/2 (integer division)
\* and marks it used; when the picked word is longer than the side it returns
\* false and leaves the Grid and the used words as they are.
C18_InitialWord ==
    [][ InitialWordStep =>
          LET word_list == InitialWordListOf
              size      == IF pc = "idle" THEN grid.size ELSE DEFAULT_GRID_SIZE
          IN  \E k \in 1..Len(word_list) :
                LET entry == word_list[k]
                    w     == Upper(entry.word)
                IN  /\ AmongFiveLongest(word_list, k)
                    /\ IF Len(w) > size
                       THEN IF pc = "idle"
                            THEN /\ call'.ret = <<FALSE>>
                                 /\ grid' = grid
                                 /\ used_words' = used_words
                            ELSE pc' \in {"attempt", "done"}
                       ELSE /\ pc = "idle" => call'.ret = <<TRUE>>
                            /\ pc = "attempt" => pc' = "placing"
                            /\ grid' = GridWithRow(size, entry, size \div 2,
                                                   (size - Len(w)) \div 2)
                            /\ used_words' = {w} ]_vars

\* C18 witness: place_initial_word has picked a word longer than the side of
\* the Grid and returned false
C18_Witness ==
    /\ pc = "idle"
    /\ call = [op |-> "place_initial_word", ret |-> <<FALSE>>]
    /\ grid = NewGrid(GridSize)
    /\ used_words = {}

\* the entries of the category that generate counts before it decides to raise:
\* not excluded, and of a length the difficulty profile allows
EligibleEntries ==
    LET profile == DIFFICULTY_SETTINGS[difficulty]
        words   == Dictionary[category]
    IN  { i \in 1..Len(words) :
            /\ Upper(words[i].word) \notin excluded_words
            /\ Len(words[i].word) >= profile.min_word_length
            /\ Len(words[i].word) <= profile.max_word_length }

MustRaise ==
    \/ category \notin DOMAIN Dictionary
    \/ Cardinality(EligibleEntries) < DIFFICULTY_SETTINGS[difficulty].word_count[1]

\* C19: generate raises ValueError exactly when the category is unknown or
\* fewer entries than the lower word-count bound of the profile are left by
\* the exclusions and the length filter; it raises as its first step, before
\* any grid is built or any attempt is counted, nothing follows the raise,
\* and the statistics counters are what they were before the call
C19_RaisesBeforeAnyAttempt ==
    /\ [](pc = "raised" => /\ MustRaise
                           /\ attempt = 0
                           /\ grid = NewGrid(DEFAULT_GRID_SIZE)
                           /\ used_words = {}
                           /\ result = <<>>
                           /\ stats = NewStats)
    /\ [](pc \in {"attempt", "placing", "cropped", "done"} => ~MustRaise)
    /\ [][/\ pc' = "raised" => pc = "generate" /\ stats' = stats /\ attempt' = attempt
          /\ pc = "generate" => (pc' = "raised" <=> MustRaise)
          /\ pc = "raised" => pc' = "raised"]_vars

\* a known category whose list is too short once the excluded word is gone
C19_Witness ==
    /\ pc = "raised"
    /\ category \in DOMAIN Dictionary
    /\ difficulty = "medium"
    /\ excluded_words # {}
    /\ stats = NewStats

\* the two lists hold the same entries the same number of times
SameEntries(a, b) ==
    /\ Len(a) = Len(b)
    /\ \A i \in 1..Len(a) :
          Cardinality({j \in 1..Len(a) : a[j] = a[i]}) =
          Cardinality({j \in 1..Len(b) : b[j] = a[i]})

\* the attempt under way has run into one of the reasons _generate_single
\* returns None for
AttemptCannotPass ==
    \/ pc = "attempt" /\ \/ sorted_words = << >>
                         \/ \E i \in 1..Len(sorted_words) :
                               Len(sorted_words[i].word) > 10
    \/ pc = "placing" /\ Len(grid.placed_words) < 8
    \/ pc = "cropped" /\ \/ grid.height < 6
                         \/ grid.width < 6
                         \/ ~validate_crossword(grid)[1]

\* the attempt under way has placed, cropped and validated what generate needs
AttemptPasses ==
    /\ pc = "cropped"
    /\ Len(grid.placed_words) >= 8
    /\ grid.height >= 6
    /\ grid.width >= 6
    /\ validate_crossword(grid)[1]

\* a step in which an attempt ends without a result
EndsInFailure ==
    \/ attempt' = attempt + 1
    \/ pc # "done" /\ pc' = "done" /\ result' = <<>>

\* a step in which generate returns a puzzle
EndsInPuzzle == pc # "done" /\ pc' = "done" /\ result' # <<>>

\* C20: a generate call that does not raise makes at most ten attempts,
\* numbered 0..9; an attempt ends without a result only for a reason
\* _generate_single returns None for, and the candidate list is then
\* reshuffled (same entries, any order); the first attempt that has placed
\* at least 8 words, cropped to at least 6 by 6 and passed validate_crossword
\* ends the call with its formatted result; the call ends with no result
\* exactly when the tenth attempt fails
C20_TenAttempts ==
    /\ [](attempt \in 0..9)
    /\ [](pc = "done" /\ result = <<>> => attempt = 9 /\ stats.failed = 1)
    /\ [][/\ EndsInFailure =>
                /\ AttemptCannotPass
                /\ SameEntries(sorted_words', sorted_words)
                /\ (pc' = "done") <=> (attempt = 9)
                /\ pc' = "done" => result' = <<>> /\ attempt' = attempt
          /\ EndsInPuzzle =>
                /\ AttemptPasses
                /\ attempt' = attempt
                /\ sorted_words' = sorted_words
                /\ result' = <<[format_result(grid) EXCEPT !.difficulty = difficulty,
                                                          !.category = category]>>
          /\ AttemptPasses => EndsInPuzzle
          /\ attempt' # attempt => attempt' = attempt + 1 /\ pc' = "attempt"
          /\ pc = "done" => pc' = "done" /\ result' = result]_vars

\* all ten attempts have failed and generate has returned None
C20_Witness ==
    /\ pc = "done"
    /\ result = <<>>
    /\ attempt = 9
    /\ stats = [total_generated |-> 1, successful |-> 0, failed |-> 1]

\* a puzzle is returned by an attempt that followed a failed one
C20_WitnessRetry ==
    /\ pc = "done"
    /\ result # <<>>
    /\ attempt >= 1

\* some cell of some word lies outside the board or holds another letter
CrossingBroken(g, words) ==
    \E k \in 1..Len(words) : \E i \in 0..(Len(words[k].word) - 1) :
        LET rc == CellAt(words[k].row, words[k].col, words[k].direction, i)
        IN  \/ rc \notin DOMAIN g.cells
            \/ g.cells[rc] # words[k].word[i + 1]

\* words i and j share a cell
ShareCell(words, i, j) ==
    \E a \in 0..(Len(words[i].word) - 1), b \in 0..(Len(words[j].word) - 1) :
        CellAt(words[i].row, words[i].col, words[i].direction, a)
          = CellAt(words[j].row, words[j].col, words[j].direction, b)

RECURSIVE LinkedTo(_, _)
\* the words a chain of shared cells joins to the words of S
LinkedTo(words, S) ==
    LET more == {j \in (1..Len(words)) \ S : \E i \in S : ShareCell(words, i, j)}
    IN  IF more = {} THEN S ELSE LinkedTo(words, S \cup more)

\* some two words are joined by no chain of shared cells
WordGraphSplit(words) ==
    /\ Len(words) > 1
    /\ LinkedTo(words, {1}) # 1..Len(words)

FilledCells(g) == Cardinality({rc \in DOMAIN g.cells : g.cells[rc] # EMPTY})

\* the checks of validate_crossword that Grid g and words fail
FailedChecks(g, words) ==
    (IF Len(words) < 8 THEN {"word_count"} ELSE {})
      \cup (IF CrossingBroken(g, words) THEN {"crossings"} ELSE {})
      \cup (IF WordGraphSplit(words) THEN {"connectivity"} ELSE {})
      \cup (IF \/ 10 * FilledCells(g) < 3 * g.height * g.width
               \/ 10 * FilledCells(g) > 7 * g.height * g.width
            THEN {"density"} ELSE {})
      \cup (IF \E k \in 1..Len(words), m \in 1..Len(words) :
                  k # m /\ words[k].word = words[m].word
            THEN {"duplicates"} ELSE {})
      \cup (IF \E k \in 1..Len(words) : Len(words[k].word) < 3
            THEN {"word_length"} ELSE {})

\* the check an error entry belongs to
CheckOf(kind) ==
    CASE kind = "too_few_words" -> "word_count"
      [] kind \in {"out_of_bounds", "mismatch"} -> "crossings"
      [] kind = "not_connected" -> "connectivity"
      [] kind \in {"density_too_low", "density_too_high"} -> "density"
      [] kind = "duplicate" -> "duplicates"
      [] kind = "too_short" -> "word_length"

\* what validate_crossword returned is what the six checks give
ValidatesAllChecks(g, words, ret) ==
    /\ {CheckOf(ret[2][n]) : n \in 1..Len(ret[2])} = FailedChecks(g, words)
    /\ ret[1] <=> (Len(ret[2]) = 0)
    /\ Len(words) < 8 => ~ret[1]

\* C23: validate_crossword runs all six checks (word count, crossings,
\* connectivity, density, duplicates, word length) whatever the earlier ones
\* found: the checks its error entries belong to are exactly the checks that
\* fail; ok is true iff there is no error entry; fewer than 8 words are never
\* valid.  Checked for every Grid of the driver and every Grid generate
\* validates, with each word list of ValidateArgs, and for the value the
\* call returned.
C23_ValidateRunsAllChecks ==
    /\ pc \in {"idle", "cropped"} =>
          \A words \in ValidateArgs(grid) :
             ValidatesAllChecks(grid, words, validate_crossword_words(grid, words))
    /\ pc = "cropped" =>
          ValidatesAllChecks(grid, grid.placed_words, validate_crossword(grid))
    /\ call.op = "validate_crossword" =>
          \E words \in ValidateArgs(grid) : ValidatesAllChecks(grid, words, call.ret)

\* validate_crossword has returned errors of four of the six checks
C23_Witness ==
    /\ call.op = "validate_crossword"
    /\ ~call.ret[1]
    /\ Cardinality({CheckOf(call.ret[2][n]) : n \in 1..Len(call.ret[2])}) >= 4

\* C25: place_remaining_words runs at most as many iterations as there are
\* candidate words, and so terminates: the pointer counts the iterations (it
\* starts at 0 and every iteration moves it by one) and never passes the end
\* of the list; place_word accepts every position find_best_position
\* returned (the last place_word call has always returned true); the loop
\* goes on only while the placed count is under the target, the attempt
\* counter under 1000 and the pointer inside the list, and the step taken
\* once one of the three fails leaves it.
C25_PlaceRemainingTerminates ==
    /\ [](pc = "placing" => /\ word_index <= Len(available_words)
                            /\ attempts <= word_index
                            /\ call = [op |-> "place_word", ret |-> <<TRUE>>])
    /\ [][pc = "placing" =>
            IF /\ Len(grid.placed_words) < target_count
               /\ attempts < 1000
               /\ word_index < Len(available_words)
            THEN /\ pc' = "placing"
                 /\ word_index' = word_index + 1
                 /\ available_words' = available_words
                 /\ \/ grid' = grid
                    \/ Len(grid'.placed_words) = Len(grid.placed_words) + 1
            ELSE pc' # "placing"]_vars
    /\ [][pc # "placing" /\ pc' = "placing" => word_index' = 0 /\ attempts' = 0]_vars

\* the loop has run through the whole candidate list without reaching the
\* target, passing over one word that was already used
C25_Witness ==
    /\ pc = "placing"
    /\ word_index = Len(available_words)
    /\ Len(grid.placed_words) < target_count
    /\ Len(grid.placed_words) + 1 < Len(available_words)

\* the cells of placed word k of Grid g
CellsOfWord(g, k) ==
    {CellAt(g.placed_words[k].row, g.placed_words[k].col, g.placed_words[k].direction, i) :
        i \in 0..(Len(g.placed_words[k].word) - 1)}

\* C26: in every grid the WordPlacer builds, two placed words that share a
\* cell run in different directions: no word lies on top of a committed word
\* of its own direction.
C26_SharedCellsAreCrossings ==
    \A k \in 1..Len(grid.placed_words), m \in 1..Len(grid.placed_words) :
        (k < m /\ CellsOfWord(grid, k) \cap CellsOfWord(grid, m) # {})
            => grid.placed_words[k].direction # grid.placed_words[m].direction

\* C28: place_words_with_backtracking returns the number of words on the
\* placer's grid at the time it returns.
C28_ReturnsPlacedCount ==
    pc = "placer_done" => call.ret = <<Len(grid.placed_words)>>

\* the generate calls that have ended, the last one included
Ended == IF pc \in {"done", "raised"} THEN Append(seen, EndedCall) ELSE seen

\* two calls with the same arguments and the same seed
SameCall(a, b) ==
    /\ a.category = b.category
    /\ a.difficulty = b.difficulty
    /\ a.excluded_words = b.excluded_words
    /\ a.seed = b.seed

\* two calls with the same outcome: the same grid and the same words at the
\* same places, or None twice, or the ValueError twice
SameOutcome(a, b) ==
    /\ a.raised = b.raised
    /\ Len(a.result) = Len(b.result)
    /\ Len(a.result) = 1 =>
          /\ a.result[1].grid = b.result[1].grid
          /\ a.result[1].words = b.result[1].words

\* C22: two generate calls on one generator with the same category,
\* difficulty, excluded_words and the same seed (not None) end the same way,
\* whatever calls were made before each of them
C22_SameSeedSameOutcome ==
    \A i \in 1..Len(Ended), j \in 1..Len(Ended) :
        (Ended[i].seed # <<>> /\ SameCall(Ended[i], Ended[j]))
            => SameOutcome(Ended[i], Ended[j])

\* the third call repeats the first, seeded, after a different second call
C22_Witness ==
    /\ Len(Ended) = 3
    /\ Ended[1].seed # <<>>
    /\ SameCall(Ended[1], Ended[3])
    /\ ~SameCall(Ended[1], Ended[2])
    /\ ~SameOutcome(Ended[1], Ended[2])
    /\ Ended[1].result # <<>>

ReturnedPuzzle(c) == ~c.raised /\ c.result # <<>>

ReturnedNone(c) == ~c.raised /\ c.result = <<>>

\* a call ends
CallEnds == pc # "done" /\ pc' = "done"

\* what a step does to self._stats
StatsStep ==
    /\ (CallEnds /\ result' # <<>>) =>
          stats' = [total_generated |-> stats.total_generated + 1,
                    successful |-> stats.successful + 1,
                    failed |-> stats.failed]
    /\ (CallEnds /\ result' = <<>>) =>
          stats' = [total_generated |-> stats.total_generated + 1,
                    successful |-> stats.successful,
                    failed |-> stats.failed + 1]
    /\ (~CallEnds) => stats' = stats
    /\ stats'.total_generated >= stats.total_generated
    /\ stats'.successful >= stats.successful
    /\ stats'.failed >= stats.failed

\* what self._stats holds after the calls that have ended
StatsCountEnded ==
    /\ stats.total_generated = stats.successful + stats.failed
    /\ stats.successful = Cardinality({i \in 1..Len(Ended) : ReturnedPuzzle(Ended[i])})
    /\ stats.failed = Cardinality({i \in 1..Len(Ended) : ReturnedNone(Ended[i])})

\* C21: on one generator, after any sequence of generate calls,
\* total_generated = successful + failed; a call that returns a puzzle adds
\* one to total_generated and one to successful, a call that returns None
\* adds one to total_generated and one to failed, and no counter ever
\* decreases
C21_StatsCountCalls == []StatsCountEnded /\ [][StatsStep]_vars

\* three calls have ended, with a puzzle and with None among them
C21_Witness ==
    /\ Len(Ended) = 3
    /\ stats.total_generated = 3
    /\ stats.successful >= 1
    /\ stats.failed >= 1
\* the cells of g that hold a letter
LetterCells(g) == {rc \in DOMAIN g.cells : g.cells[rc] # EMPTY}

\* the cells the placed words of g lie on
PlacedCells(g) == UNION {CellsOfWord(g, k) : k \in 1..Len(g.placed_words)}

\* the words placed on g
PlacedSet(g) == {Upper(g.placed_words[k].word) : k \in 1..Len(g.placed_words)}

\* g is an empty DEFAULT_GRID_SIZE by DEFAULT_GRID_SIZE Grid
IsFreshGrid(g) ==
    /\ g.size = DEFAULT_GRID_SIZE
    /\ g.height = DEFAULT_GRID_SIZE
    /\ g.width = DEFAULT_GRID_SIZE
    /\ DOMAIN g.cells = (0..(DEFAULT_GRID_SIZE - 1)) \X (0..(DEFAULT_GRID_SIZE - 1))
    /\ LetterCells(g) = {}
    /\ g.placed_words = << >>

\* what an attempt holds is what the attempt itself has placed
AttemptHoldsItsOwn ==
    /\ pc = "attempt" => IsFreshGrid(grid) /\ used_words = {}
    /\ pc \in {"placing", "cropped"} \/ Returned =>
          /\ used_words = PlacedSet(grid)
          /\ LetterCells(grid) = PlacedCells(grid)
    /\ Returned =>
          /\ Len(Puzzle.words) = Len(grid.placed_words)
          /\ \A k \in 1..Len(Puzzle.words) :
                Puzzle.words[k].word = grid.placed_words[k].word
          /\ \A i \in 1..Len(Puzzle.grid) : \A j \in 1..Len(Puzzle.grid[i]) :
                Puzzle.grid[i][j] # EMPTY => <<i - 1, j - 1>> \in PlacedCells(grid)
    /\ dictionary = Dictionary

\* an attempt starts with its initial word alone on a new Grid, and no step
\* changes the dictionary
AttemptStartsFresh ==
    /\ (pc = "attempt" /\ pc' = "placing") =>
          /\ grid'.size = DEFAULT_GRID_SIZE
          /\ grid'.height = DEFAULT_GRID_SIZE
          /\ grid'.width = DEFAULT_GRID_SIZE
          /\ Len(grid'.placed_words) = 1
          /\ LetterCells(grid') = CellsOfWord(grid', 1)
          /\ used_words' = {Upper(grid'.placed_words[1].word)}
          /\ word_index' = 0
          /\ attempts' = 0
    /\ dictionary' = dictionary

\* C27: each attempt of generate starts from an empty 10 by 10 Grid and an
\* empty used-word set, so that the letters, the placed words and the used
\* words of an attempt, and of the puzzle returned, are those the attempt
\* itself placed; generate never reorders or changes the lists of the
\* dictionary.
C27_AttemptsIndependent == []AttemptHoldsItsOwn /\ [][AttemptStartsFresh]_vars

\* a puzzle is returned by the third attempt or a later one
C27_Witness ==
    /\ Returned
    /\ attempt >= 2
    /\ dictionary = Dictionary
    /\ sorted_words # sort_words_by_score(FilteredWords(Dictionary[category],
                                                        SettingsOf(difficulty),
                                                        excluded_words))
\* C30: a seeded generate call ends the same way whether it runs alone or
\* with another generate call of the same process interleaved: the other
\* call's seed and draws have no influence on it.
C30_InterleavedCallSameOutcome ==
    (Len(seen) = 1 /\ pc = "done" /\ seed # <<>> /\ SameCall(seen[1], EndedCall))
        => SameOutcome(seen[1], EndedCall)
\* the generate calls of the request that returned a puzzle
ApiPuzzles == {i \in 1..Len(seen) : seen[i].result # <<>>}

\* the request has been answered
ApiAnswered == pc = "answered" /\ api.response # <<>>

\* C29: POST /api/crossword answers 500, failed to generate, only when none
\* of its MAX_ATTEMPTS generate calls returned a puzzle; when some call
\* returned a puzzle and every puzzle's id was among the excluded ids, the
\* answer is 200 with the last puzzle generated, its own id and the warning.
C29_FailsOnlyWithoutPuzzle ==
    ApiAnswered =>
        /\ api.response[1].status = 500 => ApiPuzzles = {}
        /\ (/\ ApiPuzzles # {}
            /\ \A i \in ApiPuzzles :
                  generate_crossword_id(seen[i].result[1].grid, seen[i].result[1].words)
                      \in api.excluded_set)
              => LET i == CHOOSE i \in ApiPuzzles : \A j \in ApiPuzzles : j <= i
                     puzzle == seen[i].result[1]
                 IN  /\ api.response[1].status = 200
                     /\ api.response[1].crossword = <<puzzle>>
                     /\ api.response[1].id =
                           <<generate_crossword_id(puzzle.grid, puzzle.words)>>
                     /\ api.response[1].warning
====
